---- MODULE Spec2Model ----
(***************************************************************************)
(* Model of the rust-smc crate: the register table walker (src/keys.rs),   *)
(* the fan walkers, the fan write-safety gate and the FanInfo snapshot     *)
(* (src/fans.rs), the value codecs (src/types.rs, src/conversions.rs) and  *)
(* the Arc-based facade with its connection mutex and its process-wide     *)
(* shared connection (src/lib.rs).                                         *)
(*                                                                         *)
(* Each component has its own specification (SpecKeys, SpecFans, SpecGate, *)
(* SpecManaged, SpecCodec, SpecPercent, SpecInfo, SpecConn, SpecShared);   *)
(* the variables of the components a specification does not exercise stay  *)
(* at their idle value.                                                    *)
(***************************************************************************)
EXTENDS Integers, Sequences, FiniteSets, TLC

VARIABLES
  sSlot,  \* SHARED: the connection in the global slot, 0 for None  (lib.rs:402)
  sLock,  \* the thread holding the lock of SHARED, 0 when free
  sT,     \* the threads calling SMC::shared()
  sNew,   \* the results of the SMCRepr::new() calls made so far, in order
  sRefs,  \* the strong count of the Arc of each connection opened
  sClosed,\* the connections IOServiceClose was called on   (lib.rs:394)
  xReg,   \* the bytes of the Driver's FS! register behind the shared connection
  xLock,  \* the thread holding the connection mutex, 0 when free   (lib.rs:248)
  xT,     \* the threads holding a Fan handle on the connection
  iInfo,  \* a FanInfo snapshot                             (fans.rs:210)
  iOp,    \* the refresh call made last: the snapshot before it, its reads, its result
  pOp,    \* the rpm or percent call made last: its arguments and its result
  kw,      \* Keys { pos, len }                                  (keys.rs:25)
  kN,      \* the table length keys() read from #KEY             (keys.rs:16)
  kRes,    \* the last call on the Keys walker and what it returned
  kLog,    \* the get_key(i) calls issued so far, in order, with their outcome
  kFlag,   \* history: whose lookup has failed, whether nth/nth_back/last was called
  fw,      \* Fans { pos, len }                                  (fans.rs:392)
  fN,      \* the fan count fans() read from FNum                (fans.rs:349)
  fKind,   \* which iterator was built: "Fans" or "FanInfos"     (fans.rs:348,357)
  fRes,    \* the last call on the fan walker and what it returned
  fLog,    \* the get_fan(id) calls issued so far, in order, with their outcome
  fFlag,   \* history of the fan walker
  gOp,     \* the fan write operation called last, with its arguments
  gLog,    \* the Driver transactions that call issued, in order
  gRet,    \* what it returned
  mDrv,    \* the Driver's "FS! " register: host byte order, declared type, bytes
  mOp,     \* the managed-mode call made last, with its transactions
  cHost,   \* the byte order of the host the codec runs on
  cOp,     \* the codec call made last: its arguments and what it returned
  mRepeat  \* history: "wrote" or "quiet" when the call before it was the same
           \* call and returned Ok, having written the bitmask or not; else "no"

keysVars == <<kw, kN, kRes, kLog, kFlag>>
fansVars == <<fw, fN, fKind, fRes, fLog, fFlag>>
gateVars == <<gOp, gLog, gRet>>
managedVars == <<mDrv, mOp, mRepeat>>
codecVars == <<cHost, cOp>>
percentVars == <<pOp>>
infoVars == <<iInfo, iOp>>
connVars == <<xReg, xLock, xT>>
sharedVars == <<sSlot, sLock, sT, sNew, sRefs, sClosed>>
notKeysVars == <<fansVars, gateVars, managedVars, codecVars, percentVars, infoVars, connVars, sharedVars>>
notFansVars == <<keysVars, gateVars, managedVars, codecVars, percentVars, infoVars, connVars, sharedVars>>
notGateVars == <<keysVars, fansVars, managedVars, codecVars, percentVars, infoVars, connVars, sharedVars>>
notManagedVars == <<keysVars, fansVars, gateVars, codecVars, percentVars, infoVars, connVars, sharedVars>>
notCodecVars == <<keysVars, fansVars, gateVars, managedVars, percentVars, infoVars, connVars, sharedVars>>
notPercentVars == <<keysVars, fansVars, gateVars, managedVars, codecVars, infoVars, connVars, sharedVars>>
notInfoVars == <<keysVars, fansVars, gateVars, managedVars, codecVars, percentVars, connVars, sharedVars>>
notConnVars == <<keysVars, fansVars, gateVars, managedVars, codecVars, percentVars, infoVars, sharedVars>>
notSharedVars == <<keysVars, fansVars, gateVars, managedVars, codecVars, percentVars, infoVars, connVars>>
vars == <<keysVars, fansVars, gateVars, managedVars, codecVars, percentVars, infoVars, connVars, sharedVars>>

(***************************************************************************)
(* Bounds of the model.                                                    *)
(***************************************************************************)
\* u32::MAX of the walker's index type, scaled down: TLC's integers are
\* 32-bit signed, so 2^32 - 1 is not representable.  All u32 arithmetic of
\* the walker is done against this value.
U32_MAX == 15
\* Longest register table keys() may report.
MaxKeys == 4
\* Largest small step count tried for nth / nth_back.
MaxN == 5
\* Largest fan count fans() may report (at most 10, types.rs:150).
MaxFans == 4
\* Largest fan id the write operations are called with.
MaxFanId == 1
\* Largest speed value tried (speeds range over -1..MaxSpeed and NaN).
MaxSpeed == 3
\* Number of threads calling SMC::shared(), and calls each of them makes.
MaxSharers == 2
MaxCalls == 2

\* The largest fan count a UMax10 holds (types.rs:150, 219).
UMAX10_MAX == 10

\* u8::MAX, the largest value of the fan walker's index type (fans.rs:445).
U8_MAX == 255
\* The Driver reads of Fan::into_info: min, max, current speed, managed bitmask.
InfoReads == 4

Min2(a, b) == IF a <= b THEN a ELSE b
Max2(a, b) == IF a >= b THEN a ELSE b

SetMin(S) == CHOOSE x \in S : \A y \in S : x <= y
SetMax(S) == CHOOSE x \in S : \A y \in S : x >= y

\* The indices found in a call log.
LogIdx(log) == { log[k].i : k \in 1..Len(log) }
\* The log without its last d entries.
LogBefore(log, d) == SubSeq(log, 1, Len(log) - d)

(***************************************************************************)
(* Keys: the register table walker (keys.rs).                              *)
(*                                                                         *)
(* Every operation is an operator from the walker w = [pos, len] and the   *)
(* outcome ok of the Driver lookup it may issue to                         *)
(*   [w: the walker afterwards, ret: "None" | "Ok" | "Err" | "Panic",       *)
(*    idx: the index passed to get_key, or -1 when no lookup was made].    *)
(***************************************************************************)
NoCall(w) == [w |-> w, ret |-> "None", idx |-> -1]

\* Keys::next stepping past a failed lookup instead of collapsing: a faulty
\* variant that KeysNextErrCollapses must reject.
KeysNext_NoCollapse(w, ok) ==
  IF w.len > w.pos
    THEN [w   |-> [w EXCEPT !.pos = w.pos + 1],
          ret |-> IF ok THEN "Ok" ELSE "Err",
          idx |-> w.pos]
    ELSE NoCall(w)

\* keys.rs:34-46
KeysNext(w, ok) ==
  IF w.len > w.pos
    THEN LET i == w.pos
             p1 == w.pos + 1
         IN [w   |-> [w EXCEPT !.pos = IF ok THEN p1 ELSE w.len],
             ret |-> IF ok THEN "Ok" ELSE "Err",
             idx |-> i]
    ELSE NoCall(w)

\* Keys::nth without the clamp to len: a faulty variant that KeysPosLeLen
\* must reject.
KeysNth_NoClamp(w, n, ok) ==
  IF n > U32_MAX
    THEN NoCall([w EXCEPT !.pos = w.len])
    ELSE KeysNext([w EXCEPT !.pos = IF w.pos + n <= U32_MAX
                                      THEN w.pos + n
                                      ELSE w.len], ok)

\* keys.rs:72-85
KeysNth(w, n, ok) ==
  IF n > U32_MAX
    THEN NoCall([w EXCEPT !.pos = w.len])
    ELSE KeysNext([w EXCEPT !.pos = IF w.pos + n <= U32_MAX
                                      THEN Min2(w.pos + n, w.len)
                                      ELSE w.len], ok)

\* Keys::next_back fetching index len before decrementing it: a faulty
\* variant that KeysExactlyOnce must reject.
KeysNextBack_OffByOne(w, ok) ==
  IF w.len > w.pos
    THEN [w   |-> [w EXCEPT !.len = w.len - 1],
          ret |-> IF ok THEN "Ok" ELSE "Err",
          idx |-> w.len]
    ELSE NoCall(w)

\* keys.rs:96-103
KeysNextBack(w, ok) ==
  IF w.len > w.pos
    THEN LET l1 == w.len - 1
         IN [w   |-> [w EXCEPT !.len = l1],
             ret |-> IF ok THEN "Ok" ELSE "Err",
             idx |-> l1]
    ELSE NoCall(w)

\* keys.rs:105-118
KeysNthBack(w, n, ok) ==
  IF n > U32_MAX
    THEN NoCall([w EXCEPT !.pos = w.len])
    ELSE KeysNextBack([w EXCEPT !.len = IF w.len >= n
                                          THEN Max2(w.len - n, w.pos)
                                          ELSE w.pos], ok)

\* keys.rs:88-92: (self.len - self.pos) as usize, in u32 arithmetic.
\* A debug build panics on underflow, a release build wraps; the wrapped
\* value is what is modelled.
KeysLen(w) == (w.len - w.pos) % (U32_MAX + 1)

\* keys.rs:60-70.  self.pos - 1 underflows when pos = 0: wrap = FALSE is the
\* build with overflow checks (panic), wrap = TRUE the build without.
KeysLast(w, ok, wrap) ==
  IF w.len > w.pos
    THEN IF w.pos = 0 /\ ~wrap
           THEN [w |-> w, ret |-> "Panic", idx |-> -1]
           ELSE KeysNext([w EXCEPT !.len = (w.pos - 1) % (U32_MAX + 1)], ok)
    ELSE NoCall(w)

\* Step counts tried: small ones, the largest u32 and one above it.
KeysNthArgs == (0..MaxN) \cup {U32_MAX, U32_MAX + 1}

\* keys.rs:15-22
KeysStart ==
  /\ kN \in 0..MaxKeys
  /\ kw = [pos |-> 0, len |-> kN]
  /\ kRes = [op |-> "keys", n |-> 0, pos0 |-> 0, len0 |-> kN,
             nextErr0 |-> FALSE, backErr0 |-> FALSE,
             ret |-> "None", idx |-> -1]
  /\ kLog = <<>>
  /\ kFlag = [nextErr |-> FALSE, backErr |-> FALSE, other |-> FALSE,
              alive |-> TRUE]

KeysIdle ==
  /\ kN = 0
  /\ kw = [pos |-> 0, len |-> 0]
  /\ kRes = [op |-> "idle", n |-> 0, pos0 |-> 0, len0 |-> 0,
             nextErr0 |-> FALSE, backErr0 |-> FALSE,
             ret |-> "None", idx |-> -1]
  /\ kLog = <<>>
  /\ kFlag = [nextErr |-> FALSE, backErr |-> FALSE, other |-> FALSE,
              alive |-> FALSE]

\* What one call on the walker leaves behind: r is the operator's result,
\* base the operation whose lookup it was ("next" or "next_back").
KeysRecord(op, base, n, r, isOther, consumes) ==
  /\ kw' = r.w
  /\ kRes' = [op |-> op, n |-> n, pos0 |-> kw.pos, len0 |-> kw.len,
              nextErr0 |-> kFlag.nextErr, backErr0 |-> kFlag.backErr,
              ret |-> r.ret, idx |-> r.idx]
  /\ kLog' = IF r.idx >= 0
               THEN Append(kLog, [i |-> r.idx, ok |-> (r.ret = "Ok")])
               ELSE kLog
  /\ kFlag' = [nextErr |-> kFlag.nextErr \/ (base = "next" /\ r.ret = "Err"),
               backErr |-> kFlag.backErr \/ (base = "next_back" /\ r.ret = "Err"),
               other |-> kFlag.other \/ isOther,
               alive   |-> ~consumes]
  /\ UNCHANGED <<kN, notKeysVars>>

KNext ==
  /\ kFlag.alive
  /\ \E ok \in BOOLEAN :
       KeysRecord("next", "next", 0, KeysNext(kw, ok), FALSE, FALSE)

KNextBack ==
  /\ kFlag.alive
  /\ \E ok \in BOOLEAN :
       KeysRecord("next_back", "next_back", 0, KeysNextBack(kw, ok), FALSE, FALSE)

KNth ==
  /\ kFlag.alive
  /\ \E n \in KeysNthArgs, ok \in BOOLEAN :
       KeysRecord("nth", "next", n, KeysNth(kw, n, ok), TRUE, FALSE)

KNthBack ==
  /\ kFlag.alive
  /\ \E n \in KeysNthArgs, ok \in BOOLEAN :
       KeysRecord("nth_back", "next_back", n, KeysNthBack(kw, n, ok), TRUE, FALSE)

KLast ==
  /\ kFlag.alive
  /\ \E ok \in BOOLEAN, wrap \in BOOLEAN :
       KeysRecord("last", "next", 0, KeysLast(kw, ok, wrap), TRUE, TRUE)

(***************************************************************************)
(* Fans / FanInfos: the fan walkers (fans.rs).  Same shape of operators as *)
(* for Keys, over u8; idx is the fan id passed to get_fan.                 *)
(***************************************************************************)
\* fans.rs:408-418
FansNext(w, ok) ==
  IF w.len > w.pos
    THEN [w   |-> [w EXCEPT !.pos = IF ok THEN w.pos + 1 ELSE w.len],
          ret |-> IF ok THEN "Ok" ELSE "Err",
          idx |-> w.pos]
    ELSE NoCall(w)

\* fans.rs:444-457
FansNth(w, n, ok) ==
  IF n > U8_MAX
    THEN NoCall([w EXCEPT !.pos = w.len])
    ELSE FansNext([w EXCEPT !.pos = IF w.pos + n <= U8_MAX
                                      THEN Min2(w.pos + n, w.len)
                                      ELSE w.len], ok)

\* fans.rs:468-478: the fan is loaded with id self.pos
FansNextBack(w, ok) ==
  IF w.len > w.pos
    THEN [w   |-> [w EXCEPT !.len = IF ok THEN w.len - 1 ELSE w.pos],
          ret |-> IF ok THEN "Ok" ELSE "Err",
          idx |-> w.pos]
    ELSE NoCall(w)

\* fans.rs:480-493
FansNthBack(w, n, ok) ==
  IF n > U8_MAX
    THEN NoCall([w EXCEPT !.pos = w.len])
    ELSE FansNextBack([w EXCEPT !.len = IF w.len >= n
                                          THEN Max2(w.len - n, w.pos)
                                          ELSE w.pos], ok)

\* fans.rs:460-465, in u8 arithmetic (wrapping build)
FansLen(w) == (w.len - w.pos) % (U8_MAX + 1)

\* fans.rs:432-442.  self.pos - 1 underflows when pos = 0: wrap = FALSE is
\* the build with overflow checks (panic), wrap = TRUE the build without.
FansLast(w, ok, wrap) ==
  IF w.len > w.pos
    THEN IF w.pos = 0 /\ ~wrap
           THEN [w |-> w, ret |-> "Panic", idx |-> -1]
           ELSE FansNext([w EXCEPT !.len = (w.pos - 1) % (U8_MAX + 1)], ok)
    ELSE NoCall(w)

\* fans.rs:194-207: four Driver reads, each returning early on failure;
\* reads is the number of them that succeed before the first failure.
IntoInfo(reads) == IF reads >= InfoReads THEN "Ok" ELSE "Err"

\* fans.rs:503-507, 509-517, 532-536, 547-557:
\*   inner.op().map(|o| o.and_then(|fan| fan.into_info(smc)))
\* src tells where an error came from: the fan lookup or into_info.
FanInfosMap(kind, r, reads) ==
  IF kind = "FanInfos" /\ r.ret = "Ok"
    THEN [w |-> r.w, ret |-> IntoInfo(reads), idx |-> r.idx,
          src |-> IF IntoInfo(reads) = "Err" THEN "info" ELSE "none"]
    ELSE [w |-> r.w, ret |-> r.ret, idx |-> r.idx,
          src |-> IF r.ret = "Err" THEN "lookup" ELSE "none"]

FansNthArgs == (0..MaxN) \cup {U8_MAX, U8_MAX + 1}

\* fans.rs:317-320: FNum holding raw, read as a UMax10 (types.rs:212-227)
fans_len(raw) == raw <= UMAX10_MAX

\* fans_len cutting the count down to ten: a faulty variant that
\* FanIdsInRange must reject.
fans_Truncating(raw) == [ok |-> TRUE, len |-> Min2(raw, UMAX10_MAX)]

\* fans.rs:348-355
fans(raw) ==
  IF fans_len(raw) THEN [ok |-> TRUE, len |-> raw]
                   ELSE [ok |-> FALSE, len |-> 0]

\* The values FNum may hold: a few fans, and one more than a UMax10 holds.
FNumValues == (0..MaxFans) \cup {UMAX10_MAX + 1}

\* fans.rs:348-361: fN is the value FNum holds; when fans() fails there is
\* no walker to call.
FansStart ==
  /\ fN \in FNumValues
  /\ fKind \in {"Fans", "FanInfos"}
  /\ LET r == fans(fN)
     IN /\ fw = [pos |-> 0, len |-> r.len]
        /\ fRes = [op |-> "fans", n |-> 0, pos0 |-> 0, len0 |-> r.len,
                   err0 |-> FALSE, ret |-> IF r.ok THEN "None" ELSE "Err",
                   idx |-> -1, src |-> "none"]
        /\ fFlag = [err |-> ~r.ok, other |-> FALSE, alive |-> r.ok]
  /\ fLog = <<>>

FansIdle ==
  /\ fN = 0
  /\ fKind = "Fans"
  /\ fw = [pos |-> 0, len |-> 0]
  /\ fRes = [op |-> "idle", n |-> 0, pos0 |-> 0, len0 |-> 0, err0 |-> FALSE,
             ret |-> "None", idx |-> -1, src |-> "none"]
  /\ fLog = <<>>
  /\ fFlag = [err |-> FALSE, other |-> FALSE, alive |-> FALSE]

\* What one call on the fan walker leaves behind.
FansRecord(op, n, r, isOther, consumes) ==
  /\ fw' = r.w
  /\ fRes' = [op |-> op, n |-> n, pos0 |-> fw.pos, len0 |-> fw.len,
              err0 |-> fFlag.err, ret |-> r.ret, idx |-> r.idx, src |-> r.src]
  /\ fLog' = IF r.idx >= 0
               THEN Append(fLog, [i |-> r.idx, ok |-> (r.src # "lookup")])
               ELSE fLog
  /\ fFlag' = [err     |-> fFlag.err \/ r.ret = "Err",
               other |-> fFlag.other \/ isOther,
               alive   |-> ~consumes]
  /\ UNCHANGED <<fN, fKind, notFansVars>>

\* The into_info outcomes tried; a plain Fans walker makes no such reads.
InfoOutcomes == IF fKind = "FanInfos" THEN 0..InfoReads ELSE {InfoReads}

FNext ==
  /\ fFlag.alive
  /\ \E ok \in BOOLEAN, reads \in InfoOutcomes :
       FansRecord("next", 0, FanInfosMap(fKind, FansNext(fw, ok), reads),
                  FALSE, FALSE)

FNextBack ==
  /\ fFlag.alive
  /\ \E ok \in BOOLEAN, reads \in InfoOutcomes :
       FansRecord("next_back", 0,
                  FanInfosMap(fKind, FansNextBack(fw, ok), reads), FALSE, FALSE)

FNth ==
  /\ fFlag.alive
  /\ \E n \in FansNthArgs, ok \in BOOLEAN, reads \in InfoOutcomes :
       FansRecord("nth", n, FanInfosMap(fKind, FansNth(fw, n, ok), reads),
                  TRUE, FALSE)

FNthBack ==
  /\ fFlag.alive
  /\ \E n \in FansNthArgs, ok \in BOOLEAN, reads \in InfoOutcomes :
       FansRecord("nth_back", n,
                  FanInfosMap(fKind, FansNthBack(fw, n, ok), reads),
                  TRUE, FALSE)

FLast ==
  /\ fFlag.alive
  /\ \E ok \in BOOLEAN, wrap \in BOOLEAN, reads \in InfoOutcomes :
       LET r == FansLast(fw, ok, wrap)
       IN FansRecord("last", 0,
                     FanInfosMap(fKind, r, reads), TRUE, TRUE)

(***************************************************************************)
(* Fan speed writes (fans.rs, lib.rs).                                     *)
(*                                                                         *)
(* A float is [nan, v]: v its value when nan is FALSE, and only its sign   *)
(* when nan is TRUE.  Comparisons are IEEE-754: false on a NaN operand.    *)
(***************************************************************************)
Floats ==
  [nan : {FALSE}, v : (-1)..MaxSpeed] \cup [nan : {TRUE}, v : {-1, 1}]
Zero == [nan |-> FALSE, v |-> 0]

FLt(a, b) == ~a.nan /\ ~b.nan /\ a.v < b.v
FLe(a, b) == ~a.nan /\ ~b.nan /\ a.v <= b.v
FGt(a, b) == ~a.nan /\ ~b.nan /\ a.v > b.v
is_sign_negative(a) == a.v < 0

\* The register types the Driver may declare for a speed register.
RegTypes == {"fpe2", "sp78", "flt ", "ui8 "}

\* The values a register of type ty can hold, as a float decoder sees them:
\* fpe2 is beU16 / 4, sp78 is beI16 / 256, flt is any bit pattern.
RegValues(ty) ==
  CASE ty = "fpe2" -> { f \in Floats : ~f.nan /\ f.v >= 0 }
    [] ty = "sp78" -> { f \in Floats : ~f.nan }
    [] ty = "flt " -> Floats
    [] OTHER       -> {Zero}

FanIds == 0..MaxFanId
Key(id, reg) == [fan |-> id, reg |-> reg]
Tx(sel, key) == [sel |-> sel, key |-> key]
HasWrite(log) == \E k \in 1..Len(log) : log[k].sel = "WriteKey"
WriteKeys(log) == { log[k].key : k \in { j \in 1..Len(log) : log[j].sel = "WriteKey" } }

\* The outcomes of the two Driver transactions of one typed read or write.
TxOutcomes == [1..2 -> BOOLEAN]
\* What the Driver holds for one register read: its type and value.
RegReads == UNION { [ty : {ty}, v : RegValues(ty)] : ty \in RegTypes }

\* types.rs:131-142: whether f32::from_smc accepts the register type
f32_from_smc(ty) == ty \in {"fpe2", "sp78", "flt "}

\* util.rs:6-43: whether write_f32 encodes n into a buffer of type ty
write_f32(n, ty) ==
  CASE ty = "fpe2" -> ~is_sign_negative(n)
    [] ty = "sp78" -> TRUE
    [] ty = "flt " -> TRUE
    [] OTHER       -> FALSE

\* SMC::read_key::<f32> of the trait-based facade: GetKeyInfo, ReadKey, decode.
smc_read_key(key, rd, oks) ==
  IF ~oks[1]
    THEN [log |-> <<Tx("GetKeyInfo", key)>>, ret |-> "Driver", val |-> Zero]
  ELSE IF ~oks[2]
    THEN [log |-> <<Tx("GetKeyInfo", key), Tx("ReadKey", key)>>,
          ret |-> "Driver", val |-> Zero]
  ELSE [log |-> <<Tx("GetKeyInfo", key), Tx("ReadKey", key)>>,
        ret |-> IF f32_from_smc(rd.ty) THEN "Ok" ELSE "TryFrom",
        val |-> rd.v]

\* SMC::write_key of the trait-based facade: GetKeyInfo, encode, WriteKey.
smc_write_key(key, n, ty, oks) ==
  IF ~oks[1]
    THEN [log |-> <<Tx("GetKeyInfo", key)>>, ret |-> "Driver"]
  ELSE IF ~write_f32(n, ty)
    THEN [log |-> <<Tx("GetKeyInfo", key)>>, ret |-> "TryInto"]
  ELSE [log |-> <<Tx("GetKeyInfo", key), Tx("WriteKey", key)>>,
        ret |-> IF oks[2] THEN "Ok" ELSE "Driver"]

\* fans.rs:99-110
set_min_speed(id, max, speed, ty, oks) ==
  IF FLe(speed, Zero) \/ FGt(speed, max)
    THEN [log |-> <<>>, ret |-> "TryInto"]
    ELSE smc_write_key(Key(id, "Mn"), speed, ty, oks)

\* fans.rs:112-129
set_current_speed(id, min, max, speed, ty, oks) ==
  IF FLt(speed, min) \/ FGt(speed, max)
    THEN [log |-> <<>>, ret |-> "TryInto"]
    ELSE smc_write_key(Key(id, "Tg"), speed, ty, oks)

\* fans.rs:183-186
Fan_set_min_speed(id, speed, rdMax, oksMax, ty, oks) ==
  LET m == smc_read_key(Key(id, "Mx"), rdMax, oksMax)
  IN IF m.ret # "Ok"
       THEN [log |-> m.log, ret |-> m.ret]
       ELSE LET w == set_min_speed(id, m.val, speed, ty, oks)
            IN [log |-> m.log \o w.log, ret |-> w.ret]

\* fans.rs:188-192
Fan_set_current_speed(id, speed, rdMin, oksMin, rdMax, oksMax, ty, oks) ==
  LET a == smc_read_key(Key(id, "Mn"), rdMin, oksMin)
  IN IF a.ret # "Ok"
       THEN [log |-> a.log, ret |-> a.ret]
       ELSE LET b == smc_read_key(Key(id, "Mx"), rdMax, oksMax)
            IN IF b.ret # "Ok"
                 THEN [log |-> a.log \o b.log, ret |-> b.ret]
                 ELSE LET w == set_current_speed(id, a.val, b.val, speed, ty, oks)
                      IN [log |-> a.log \o b.log \o w.log, ret |-> w.ret]

\* conversions.rs:244-302: the float codec of the Arc-based facade handles
\* fpe2 and sp78 and panics on anything else, and on a negative fpe2.
lib_float_from_smc(ty) == ty \in {"fpe2", "sp78"}
lib_float_to_smc(n, ty) ==
  CASE ty = "fpe2" -> ~is_sign_negative(n)
    [] ty = "sp78" -> TRUE
    [] OTHER       -> FALSE

\* lib.rs:362-368 with key_information (334-347) and read_data (301-315)
read_key(key, rd, oks) ==
  IF ~oks[1]
    THEN [log |-> <<Tx("GetKeyInfo", key)>>, ret |-> "Driver", val |-> Zero]
  ELSE IF ~oks[2]
    THEN [log |-> <<Tx("GetKeyInfo", key), Tx("ReadKey", key)>>,
          ret |-> "Driver", val |-> Zero]
  ELSE [log |-> <<Tx("GetKeyInfo", key), Tx("ReadKey", key)>>,
        ret |-> IF lib_float_from_smc(rd.ty) THEN "Ok" ELSE "Panic",
        val |-> rd.v]

\* lib.rs:370-376 with key_information (334-347) and write_data (317-332):
\* to_smc runs while the request is built, before the Driver call.
write_key(key, n, ty, oks) ==
  IF ~oks[1]
    THEN [log |-> <<Tx("GetKeyInfo", key)>>, ret |-> "Driver"]
  ELSE IF ~lib_float_to_smc(n, ty)
    THEN [log |-> <<Tx("GetKeyInfo", key)>>, ret |-> "Panic"]
  ELSE [log |-> <<Tx("GetKeyInfo", key), Tx("WriteKey", key)>>,
        ret |-> IF oks[2] THEN "Ok" ELSE "Driver"]

\* lib.rs:531-539
LibFan_set_min_speed(id, speed, rdMax, oksMax, ty, oks) ==
  LET m == read_key(Key(id, "Mx"), rdMax, oksMax)
  IN IF m.ret # "Ok"
       THEN [log |-> m.log, ret |-> m.ret]
       ELSE IF FLe(speed, Zero) \/ FGt(speed, m.val)
              THEN [log |-> m.log, ret |-> "UnsafeFanSpeed"]
              ELSE LET w == write_key(Key(id, "Mn"), speed, ty, oks)
                   IN [log |-> m.log \o w.log, ret |-> w.ret]

GateStart ==
  /\ gOp = [op |-> "none", id |-> 0, speed |-> Zero, min |-> Zero, max |-> Zero]
  /\ gLog = <<>>
  /\ gRet = "none"

GateIdle == GateStart

\* What one write operation leaves behind.  A call starts from the idle
\* state; GReturn hands the result to the caller and frees the handle.
GateRecord(op, id, speed, min, max, r) ==
  /\ gOp' = [op |-> op, id |-> id, speed |-> speed, min |-> min, max |-> max]
  /\ gLog' = r.log
  /\ gRet' = r.ret
  /\ UNCHANGED notGateVars

\* set_min_speed(smc, id, max, speed), also reached from FanInfo::set_min_speed
\* (fans.rs:265-267) with the cached max
GSetMinSpeed ==
  /\ gOp.op = "none"
  /\ \E id \in FanIds, max \in Floats, speed \in Floats,
     ty \in RegTypes, oks \in TxOutcomes :
    GateRecord("set_min_speed", id, speed, Zero, max,
               set_min_speed(id, max, speed, ty, oks))

\* set_current_speed(smc, id, min, max, speed), also reached from
\* FanInfo::set_current_speed (fans.rs:270-272) with the cached min and max
GSetCurrentSpeed ==
  /\ gOp.op = "none"
  /\ \E id \in FanIds, min \in Floats, max \in Floats, speed \in Floats,
     ty \in RegTypes, oks \in TxOutcomes :
    GateRecord("set_current_speed", id, speed, min, max,
               set_current_speed(id, min, max, speed, ty, oks))

GFanSetMinSpeed ==
  /\ gOp.op = "none"
  /\ \E id \in FanIds, speed \in Floats, rdMax \in RegReads, oksMax \in TxOutcomes,
     ty \in RegTypes, oks \in TxOutcomes :
    GateRecord("Fan::set_min_speed", id, speed, Zero, rdMax.v,
               Fan_set_min_speed(id, speed, rdMax, oksMax, ty, oks))

GFanSetCurrentSpeed ==
  /\ gOp.op = "none"
  /\ \E id \in FanIds, speed \in Floats, rdMin \in RegReads, oksMin \in TxOutcomes,
     rdMax \in RegReads, oksMax \in TxOutcomes,
     ty \in RegTypes, oks \in TxOutcomes :
    GateRecord("Fan::set_current_speed", id, speed, rdMin.v, rdMax.v,
               Fan_set_current_speed(id, speed, rdMin, oksMin, rdMax, oksMax,
                                     ty, oks))

GLibFanSetMinSpeed ==
  /\ gOp.op = "none"
  /\ \E id \in FanIds, speed \in Floats, rdMax \in RegReads, oksMax \in TxOutcomes,
     ty \in RegTypes, oks \in TxOutcomes :
    GateRecord("lib::Fan::set_min_speed", id, speed, Zero, rdMax.v,
               LibFan_set_min_speed(id, speed, rdMax, oksMax, ty, oks))

GReturn ==
  /\ gOp.op # "none"
  /\ gOp' = [op |-> "none", id |-> 0, speed |-> Zero, min |-> Zero, max |-> Zero]
  /\ gLog' = <<>>
  /\ gRet' = "none"
  /\ UNCHANGED notGateVars

(***************************************************************************)
(* Codec (types.rs, util.rs, fans.rs:11-35).                               *)
(*                                                                         *)
(* An SMCVal is [type, len, data]: data is the data() view, the first len  *)
(* bytes of the 32-byte buffer.  h is the byte order of the host, "le" or  *)
(* "be".  An integer is kept as [hi, lo] = hi * 65536 + lo, 0 <= lo <      *)
(* 65536, so that 32-bit values of either sign stay representable.         *)
(***************************************************************************)
\* types.rs:7-16, fans.rs:7
TYPE_FLAG == "flag"
TYPE_I8 == "si8 "
TYPE_U8 == "ui8 "
TYPE_I16 == "si16"
TYPE_U16 == "ui16"
TYPE_I32 == "si32"
TYPE_U32 == "ui32"
TYPE_FLT == "flt "
TYPE_FPE2 == "fpe2"
TYPE_SP78 == "sp78"
TYPE_FAN == "{fds"

\* The size of the buffer of an SMCVal.
BufSize == 32
\* The declared size of a register of type ty.
Width(ty) ==
  CASE ty \in {TYPE_FLAG, TYPE_I8, TYPE_U8} -> 1
    [] ty \in {TYPE_I16, TYPE_U16, TYPE_FPE2, TYPE_SP78} -> 2
    [] OTHER -> 4
\* Bytes and 16-bit halves.
B8 == 256
B16 == 65536

Hosts == {"le", "be"}

Reverse(s) == [i \in 1..Len(s) |-> s[Len(s) + 1 - i]]

\* The integer n (|n| < 2^31) as [hi, lo].
W(n) == [hi |-> n \div B16, lo |-> n % B16]

\* *data.as_ptr().cast::<T>() for a w-byte integer T: the value the host
\* reads from the first w bytes, given as its bytes, most significant first.
NativeRead(data, w, h) ==
  IF h = "be" THEN SubSeq(data, 1, w) ELSE Reverse(SubSeq(data, 1, w))
\* T::from_be(x): a byte swap on a little-endian host.
from_be(x, h) == IF h = "be" THEN x ELSE Reverse(x)

\* The unsigned and the signed value of w bytes, most significant first.
Half(a, b) == a * B8 + b
SHalf(a, b) == IF a >= 128 THEN Half(a, b) - B16 ELSE Half(a, b)
Unsigned(x) ==
  CASE Len(x) = 1 -> W(x[1])
    [] Len(x) = 2 -> W(Half(x[1], x[2]))
    [] Len(x) = 4 -> [hi |-> Half(x[1], x[2]), lo |-> Half(x[3], x[4])]
Signed(x) ==
  CASE Len(x) = 1 -> W(IF x[1] >= 128 THEN x[1] - B8 ELSE x[1])
    [] Len(x) = 2 -> W(SHalf(x[1], x[2]))
    [] Len(x) = 4 -> [hi |-> SHalf(x[1], x[2]), lo |-> Half(x[3], x[4])]

\* v.to_be_bytes() of the w-byte two's complement integer v = [hi, lo]: its
\* bytes, most significant first (an `as` cast to a wider type keeps v).
to_be_bytes(v, w) ==
  LET hi == v.hi % B16
  IN CASE w = 1 -> <<v.lo % B8>>
       [] w = 2 -> <<v.lo \div B8, v.lo % B8>>
       [] w = 4 -> <<hi \div B8, hi % B8, v.lo \div B8, v.lo % B8>>

\* What a decoder returns: Some(v) or None, and how many bytes of the
\* buffer it read.
Some(v, reads) == [ok |-> TRUE, v |-> v, reads |-> reads]
None == [ok |-> FALSE, v |-> W(0), reads |-> 0]

\* *param.data().get_unchecked(0)
Byte0(param) == <<param.data[1]>>
\* T::from_be(*param.data().as_ptr().cast()) for a w-byte T
BeRead(param, w, h) == from_be(NativeRead(param.data, w, h), h)

\* types.rs:32-40
bool_from_smc(param, h) ==
  IF param.type # TYPE_FLAG \/ param.len # 1
    THEN None
    ELSE Some(param.data[1] # 0, 1)

\* types.rs:42-50
u8_from_smc(param, h) ==
  IF param.type # TYPE_U8 \/ param.len # 1
    THEN None
    ELSE Some(Unsigned(Byte0(param)), 1)

\* types.rs:52-60
i8_from_smc(param, h) ==
  IF param.type # TYPE_I8 \/ param.len # 1
    THEN None
    ELSE Some(Signed(NativeRead(param.data, 1, h)), 1)

\* u16::from_smc accepting its tags at any length: a faulty variant that
\* DecodeTotal must reject.
u16_from_smc_AnyLen(param, h) ==
  LET whole == [param EXCEPT !.data =
                  [i \in 1..BufSize |->
                     IF i <= param.len THEN param.data[i] ELSE 0]]
  IN  CASE param.type = TYPE_U8  -> Some(Unsigned(Byte0(whole)), 1)
        [] param.type = TYPE_U16 -> Some(Unsigned(BeRead(whole, 2, h)), 2)
        [] OTHER -> None

\* types.rs:62-72
u16_from_smc(param, h) ==
  CASE param.type = TYPE_U8 /\ param.len = 1  -> Some(Unsigned(Byte0(param)), 1)
    [] param.type = TYPE_U16 /\ param.len = 2 -> Some(Unsigned(BeRead(param, 2, h)), 2)
    [] OTHER -> None

\* types.rs:74-85
i16_from_smc(param, h) ==
  CASE param.type = TYPE_U8 /\ param.len = 1  -> Some(Unsigned(Byte0(param)), 1)
    [] param.type = TYPE_I8 /\ param.len = 1  -> Some(Signed(BeRead(param, 1, h)), 1)
    [] param.type = TYPE_I16 /\ param.len = 2 -> Some(Signed(BeRead(param, 2, h)), 2)
    [] OTHER -> None

\* types.rs:87-98
u32_from_smc(param, h) ==
  CASE param.type = TYPE_U8 /\ param.len = 1  -> Some(Unsigned(Byte0(param)), 1)
    [] param.type = TYPE_U16 /\ param.len = 2 -> Some(Unsigned(BeRead(param, 2, h)), 2)
    [] param.type = TYPE_U32 /\ param.len = 4 -> Some(Unsigned(BeRead(param, 4, h)), 4)
    [] OTHER -> None

\* i32::from_smc taking a ui32 buffer as well: a faulty variant that
\* DecodeWidens must reject.
i32_from_smc_TakesU32(param, h) ==
  CASE param.type = TYPE_U8 /\ param.len = 1  -> Some(Unsigned(Byte0(param)), 1)
    [] param.type = TYPE_I8 /\ param.len = 1  -> Some(Signed(NativeRead(param.data, 1, h)), 1)
    [] param.type = TYPE_U16 /\ param.len = 2 -> Some(Unsigned(BeRead(param, 2, h)), 2)
    [] param.type = TYPE_I16 /\ param.len = 2 -> Some(Signed(BeRead(param, 2, h)), 2)
    [] param.type = TYPE_I32 /\ param.len = 4 -> Some(Signed(BeRead(param, 4, h)), 4)
    [] param.type = TYPE_U32 /\ param.len = 4 -> Some(Signed(BeRead(param, 4, h)), 4)
    [] OTHER -> None

\* types.rs:100-113
i32_from_smc(param, h) ==
  CASE param.type = TYPE_U8 /\ param.len = 1  -> Some(Unsigned(Byte0(param)), 1)
    [] param.type = TYPE_I8 /\ param.len = 1  -> Some(Signed(NativeRead(param.data, 1, h)), 1)
    [] param.type = TYPE_U16 /\ param.len = 2 -> Some(Unsigned(BeRead(param, 2, h)), 2)
    [] param.type = TYPE_I16 /\ param.len = 2 -> Some(Signed(BeRead(param, 2, h)), 2)
    [] param.type = TYPE_I32 /\ param.len = 4 -> Some(Signed(BeRead(param, 4, h)), 4)
    [] OTHER -> None

\* types.rs:115-129
i64_from_smc(param, h) ==
  CASE param.type = TYPE_U8 /\ param.len = 1  -> Some(Unsigned(Byte0(param)), 1)
    [] param.type = TYPE_I8 /\ param.len = 1  -> Some(Signed(NativeRead(param.data, 1, h)), 1)
    [] param.type = TYPE_U16 /\ param.len = 2 -> Some(Unsigned(BeRead(param, 2, h)), 2)
    [] param.type = TYPE_I16 /\ param.len = 2 -> Some(Signed(BeRead(param, 2, h)), 2)
    [] param.type = TYPE_U32 /\ param.len = 4 -> Some(Unsigned(BeRead(param, 4, h)), 4)
    [] param.type = TYPE_I32 /\ param.len = 4 -> Some(Signed(BeRead(param, 4, h)), 4)
    [] OTHER -> None

\* What an encoder returns: Some(()) or None, and the buffer afterwards.
Written(val) == [ok |-> TRUE, val |-> val]
NotWritten(val) == [ok |-> FALSE, val |-> val]
\* copy_nonoverlapping(bytes, val.data_mut(), Len(bytes))
Store(val, bytes) ==
  [val EXCEPT !.data = bytes \o SubSeq(val.data, Len(bytes) + 1, Len(val.data))]

\* util.rs:45-57
write_u32(n, val) ==
  IF val.type = TYPE_U32 /\ val.len = 4
    THEN Written(Store(val, to_be_bytes(n, 4)))
    ELSE NotWritten(val)

\* util.rs:59-71
write_i32(n, val) ==
  IF val.type = TYPE_I32 /\ val.len = 4
    THEN Written(Store(val, to_be_bytes(n, 4)))
    ELSE NotWritten(val)

\* write_u16 storing the low byte first: a faulty variant that
\* IntRoundTrip must reject.
write_u16_LowFirst(n, val) ==
  CASE val.type = TYPE_U16 /\ val.len = 2 -> Written(Store(val, Reverse(to_be_bytes(n, 2))))
    [] val.type = TYPE_I32 /\ val.len = 4 -> write_i32(n, val)
    [] val.type = TYPE_U32 /\ val.len = 4 -> write_u32(n, val)
    [] OTHER -> NotWritten(val)

\* util.rs:73-87
write_u16(n, val) ==
  CASE val.type = TYPE_U16 /\ val.len = 2 -> Written(Store(val, to_be_bytes(n, 2)))
    [] val.type = TYPE_I32 /\ val.len = 4 -> write_i32(n, val)
    [] val.type = TYPE_U32 /\ val.len = 4 -> write_u32(n, val)
    [] OTHER -> NotWritten(val)

\* util.rs:89-102
write_i16(n, val) ==
  CASE val.type = TYPE_I16 /\ val.len = 2 -> Written(Store(val, to_be_bytes(n, 2)))
    [] val.type = TYPE_I32 /\ val.len = 4 -> write_i32(n, val)
    [] OTHER -> NotWritten(val)

\* util.rs:104-113
write_u8(n, val) ==
  CASE val.type = TYPE_U8 /\ val.len = 1  -> Written(Store(val, to_be_bytes(n, 1)))
    [] val.type = TYPE_I16 /\ val.len = 2 -> write_i16(n, val)
    [] OTHER -> write_u16(n, val)

\* util.rs:115-123
write_i8(n, val) ==
  CASE val.type = TYPE_I8 /\ val.len = 1 -> Written(Store(val, to_be_bytes(n, 1)))
    [] OTHER -> write_i16(n, val)

\* write_bool copying the byte before it looks at the tag: a faulty variant
\* that EncodeFailureLeavesBuffer must reject.
write_bool_StoresFirst(n, val) ==
  LET stored == Store(val, <<IF n THEN 1 ELSE 0>>)
  IN IF val.type = TYPE_FLAG /\ val.len = 1
       THEN Written(stored)
       ELSE NotWritten(stored)

\* util.rs:125-133
write_bool(n, val) ==
  IF val.type = TYPE_FLAG /\ val.len = 1
    THEN Written(Store(val, <<IF n THEN 1 ELSE 0>>))
    ELSE NotWritten(val)

\* types.rs:212-227 and 304-319: TryFrom<u32> with the largest value max
TryFromU32(r, max) ==
  IF ~r.ok THEN None
  ELSE IF r.v.hi > 0 \/ r.v.lo > max THEN [None EXCEPT !.reads = r.reads]
  ELSE r

\* types.rs:244
ONE_DIGIT_MAX == 9

\* types.rs:232-236
UMax10_from_smc(param, h) == TryFromU32(u32_from_smc(param, h), UMAX10_MAX)

\* types.rs:326-330
OneDigit_from_smc(param, h) == TryFromU32(u32_from_smc(param, h), ONE_DIGIT_MAX)

\* fans.rs:13, 18: the bytes of the header that precedes the name
FAN_NAME_OFFSET == 4

\* fans.rs:11-35: the name is the bytes of data()[4..] before the first NUL
FanName_from_smc(param, h) ==
  IF param.type # TYPE_FAN \/ param.len < FAN_NAME_OFFSET
    THEN None
    ELSE LET b    == SubSeq(param.data, FAN_NAME_OFFSET + 1, param.len)
             nuls == { k \in 1..Len(b) : b[k] = 0 }
             stop == IF nuls = {} THEN Len(b) + 1 ELSE SetMin(nuls)
         IN Some(SubSeq(b, 1, stop - 1),
                 FAN_NAME_OFFSET + Min2(stop, Len(b)))

(***************************************************************************)
(* Floats of the codec.  A float n is [bits, nan, q]: bits are the four    *)
(* bytes of its IEEE-754 pattern, most significant first, and q its value  *)
(* in units of 1 / QDen (0 for a NaN).  A decoded float is [kind, q, bits] *)
(* with kind "q" when the value is known and "bits" when the pattern is.   *)
(***************************************************************************)
\* util.rs:14, types.rs:135
FPE2_SCALE == 4
\* util.rs:24, types.rs:136
SP78_SCALE == 256
QDen == FPE2_SCALE * SP78_SCALE

\* u16::MAX, i16::MIN, i16::MAX
U16_MAX == 65535
I16_MIN == -32768
I16_MAX == 32767

\* n.is_sign_negative(): the sign bit of the pattern
f32_is_sign_negative(n) == n.bits[1] >= 128

\* (x as u16), (x as i16) for the float x = a / b: NaN is 0, the fraction is
\* dropped (rounding toward zero) and the result saturates.  n * 4.0 is
\* q / (QDen / 4) and n * 256.0 is q / (QDen / 256), both exact in f32.
TruncDiv(a, b) == IF a >= 0 THEN a \div b ELSE -((-a) \div b)
Clamp(x, lo, hi) == Max2(lo, Min2(x, hi))
as_u16(nan, a, b) == IF nan THEN 0 ELSE Clamp(TruncDiv(a, b), 0, U16_MAX)
as_i16(nan, a, b) == IF nan THEN 0 ELSE Clamp(TruncDiv(a, b), I16_MIN, I16_MAX)

\* write_f32 accepting a negative value for fpe2: a faulty variant that
\* Fpe2Quantises must reject.
codec_write_f32_NoSign(n, val) ==
  CASE val.type = TYPE_FPE2 /\ val.len = 2 ->
         Written(Store(val, to_be_bytes(W(as_u16(n.nan, n.q, QDen \div FPE2_SCALE)), 2)))
    [] val.type = TYPE_SP78 /\ val.len = 2 ->
         Written(Store(val, to_be_bytes(W(as_i16(n.nan, n.q, QDen \div SP78_SCALE)), 2)))
    [] val.type = TYPE_FLT /\ val.len = 4 -> Written(Store(val, n.bits))
    [] OTHER -> NotWritten(val)

\* util.rs:6-43
codec_write_f32(n, val) ==
  CASE val.type = TYPE_FPE2 /\ val.len = 2 ->
         IF f32_is_sign_negative(n)
           THEN NotWritten(val)
           ELSE Written(Store(val, to_be_bytes(W(as_u16(n.nan, n.q, QDen \div FPE2_SCALE)), 2)))
    [] val.type = TYPE_SP78 /\ val.len = 2 ->
         Written(Store(val, to_be_bytes(W(as_i16(n.nan, n.q, QDen \div SP78_SCALE)), 2)))
    [] val.type = TYPE_FLT /\ val.len = 4 -> Written(Store(val, n.bits))
    [] OTHER -> NotWritten(val)

DecQ(q) == [kind |-> "q", q |-> q, bits |-> <<>>]
DecBits(bits) == [kind |-> "bits", q |-> 0, bits |-> bits]

\* types.rs:131-142: the flt arm reads the four bytes in host order
codec_f32_from_smc(param, h) ==
  CASE param.type = TYPE_FPE2 /\ param.len = 2 ->
         Some(DecQ(Unsigned(BeRead(param, 2, h)).lo * (QDen \div FPE2_SCALE)), 2)
    [] param.type = TYPE_SP78 /\ param.len = 2 ->
         LET s == Signed(BeRead(param, 2, h))
         IN Some(DecQ((s.hi * B16 + s.lo) * (QDen \div SP78_SCALE)), 2)
    [] param.type = TYPE_FLT /\ param.len = 4 ->
         Some(DecBits(NativeRead(param.data, 4, h)), 4)
    [] OTHER -> None

(***************************************************************************)
(* The codec as a component: one decode or one encode-then-decode per      *)
(* call, on a host of either byte order.                                   *)
(***************************************************************************)
Targets ==
  {"bool", "u8", "i8", "u16", "i16", "u32", "i32", "i64", "f32",
   "UMax10", "OneDigit", "FanName"}

\* T::from_smc(param) for the target T
from_smc(T, param, h) ==
  CASE T = "bool"     -> bool_from_smc(param, h)
    [] T = "u8"       -> u8_from_smc(param, h)
    [] T = "i8"       -> i8_from_smc(param, h)
    [] T = "u16"      -> u16_from_smc(param, h)
    [] T = "i16"      -> i16_from_smc(param, h)
    [] T = "u32"      -> u32_from_smc(param, h)
    [] T = "i32"      -> i32_from_smc(param, h)
    [] T = "i64"      -> i64_from_smc(param, h)
    [] T = "f32"      -> codec_f32_from_smc(param, h)
    [] T = "UMax10"   -> UMax10_from_smc(param, h)
    [] T = "OneDigit" -> OneDigit_from_smc(param, h)
    [] T = "FanName"  -> FanName_from_smc(param, h)

Sources == {"bool", "u8", "i8", "u16", "i16", "u32", "i32"}

\* util::write_S(n, val) for the source type S
write(S, n, val) ==
  CASE S = "bool" -> write_bool(n, val)
    [] S = "u8"   -> write_u8(n, val)
    [] S = "i8"   -> write_i8(n, val)
    [] S = "u16"  -> write_u16(n, val)
    [] S = "i16"  -> write_i16(n, val)
    [] S = "u32"  -> write_u32(n, val)
    [] S = "i32"  -> write_i32(n, val)

\* The largest buffer length tried below the full buffer.
MaxLen == 5
\* The tags tried: the ones the codec knows and one it does not.
Tags ==
  {TYPE_FLAG, TYPE_I8, TYPE_U8, TYPE_I16, TYPE_U16, TYPE_I32, TYPE_U32,
   TYPE_FLT, TYPE_FPE2, TYPE_SP78, TYPE_FAN, "ch8*"}
Lens == (0..MaxLen) \cup {BufSize}
\* The bytes tried: a buffer holds two of them alternating.
ByteVals == {0, 1, 128, 255}
Fill(len, a, b) == [i \in 1..len |-> IF i % 2 = 1 THEN a ELSE b]
Buffers ==
  { [type |-> t, len |-> l, data |-> Fill(l, a, b)] :
      t \in Tags, l \in Lens, a \in ByteVals, b \in ByteVals }
\* The empty buffers an encoder is handed.
Zeroes(w) == [i \in 1..w |-> 0]
Blank(t, l) == [type |-> t, len |-> l, data |-> Zeroes(l)]
\* A buffer that still holds the bytes of an earlier use.
Stale(t, l) == [type |-> t, len |-> l, data |-> Fill(l, 255, 1)]
\* The destination buffers an encoder is handed.
Dests(t, l) == {Blank(t, l), Stale(t, l)}

\* The values tried for each source type: its extremes and values around
\* the byte and sign boundaries.
Values(S) ==
  CASE S = "bool" -> BOOLEAN
    [] S = "u8"   -> { W(n) : n \in {0, 1, 127, 128, 255} }
    [] S = "i8"   -> { W(n) : n \in {-128, -1, 0, 1, 127} }
    [] S = "u16"  -> { W(n) : n \in {0, 255, 256, I16_MAX, I16_MAX + 1, U16_MAX} }
    [] S = "i16"  -> { W(n) : n \in {I16_MIN, -256, -1, 0, 255, I16_MAX} }
    [] S = "u32"  -> { [hi |-> a, lo |-> b] :
                         a \in {0, 1, I16_MAX, I16_MAX + 1, U16_MAX},
                         b \in {0, 258, U16_MAX} }
    [] S = "i32"  -> { [hi |-> a, lo |-> b] :
                         a \in {I16_MIN, -1, 0, 1, I16_MAX},
                         b \in {0, 258, U16_MAX} }

\* The floats tried: 0, -0, 1023/1024 and its negative, 1126/1024 (the
\* float next to 1.1 on this grid), -1, 3000, 65535/4, 16384, and a NaN of
\* either sign.
F32(b1, b2, b3, b4, q) == [bits |-> <<b1, b2, b3, b4>>, nan |-> FALSE, q |-> q]
NaN32(b1) == [bits |-> <<b1, 192, 0, 0>>, nan |-> TRUE, q |-> 0]
CFloats ==
  { F32(0, 0, 0, 0, 0), F32(128, 0, 0, 0, 0),
    F32(63, 127, 192, 0, 1023), F32(191, 127, 192, 0, -1023),
    F32(63, 140, 192, 0, 1126), F32(191, 128, 0, 0, -QDen),
    F32(69, 59, 128, 0, 3000 * QDen),
    F32(70, 127, 255, 0, U16_MAX * (QDen \div FPE2_SCALE)),
    F32(70, 128, 0, 0, 16384 * QDen),
    NaN32(127), NaN32(255) }

NoCodecOp == [op |-> "none"]

CodecStart ==
  /\ cHost \in Hosts
  /\ cOp = NoCodecOp

CodecIdle ==
  /\ cHost = "le"
  /\ cOp = NoCodecOp

\* T::from_smc(param)
CDecode ==
  /\ cOp.op = "none"
  /\ \E T \in Targets, param \in Buffers :
       cOp' = [op |-> "from_smc", T |-> T, param |-> param,
               res |-> from_smc(T, param, cHost)]
  /\ UNCHANGED <<cHost, notCodecVars>>

\* The tag's own integer type: the type the tag is named after.
OwnType(t) ==
  CASE t = TYPE_FLAG -> "bool"
    [] t = TYPE_U8   -> "u8"
    [] t = TYPE_I8   -> "i8"
    [] t = TYPE_U16  -> "u16"
    [] t = TYPE_I16  -> "i16"
    [] t = TYPE_U32  -> "u32"
    [] t = TYPE_I32  -> "i32"
    [] OTHER         -> "none"

\* util::write_S(n, val) into an empty buffer, and when it succeeds the
\* decoding of the buffer as the tag's own type
CEncode ==
  /\ cOp.op = "none"
  /\ \E S \in Sources, t \in Tags, l \in Lens :
       \E n \in Values(S), val0 \in Dests(t, l) :
         LET e == write(S, n, val0)
         IN cOp' = [op |-> "write", S |-> S, n |-> n, val0 |-> val0,
                    val |-> e.val, ok |-> e.ok,
                    res |-> IF e.ok /\ OwnType(t) # "none"
                              THEN from_smc(OwnType(t), e.val, cHost)
                              ELSE None]
  /\ UNCHANGED <<cHost, notCodecVars>>

\* util::write_f32(n, val) into an empty buffer, and when it succeeds
\* f32::from_smc of the buffer
CEncodeF32 ==
  /\ cOp.op = "none"
  /\ \E n \in CFloats, t \in Tags, l \in Lens :
       \E val0 \in Dests(t, l) :
         LET e == codec_write_f32(n, val0)
         IN cOp' = [op |-> "write_f32", n |-> n, val0 |-> val0,
                    val |-> e.val, ok |-> e.ok,
                    res |-> IF e.ok THEN codec_f32_from_smc(e.val, cHost)
                                    ELSE None]
  /\ UNCHANGED <<cHost, notCodecVars>>

\* The caller takes the result.
CReturn ==
  /\ cOp.op # "none"
  /\ cOp' = NoCodecOp
  /\ UNCHANGED <<cHost, notCodecVars>>

(***************************************************************************)
(* The managed bitmask (fans.rs:58-60, 363-389; lib.rs:510-551).           *)
(*                                                                         *)
(* The Driver holds the register "FS! ": its declared type and its bytes.  *)
(* A call runs against a context c = [drv, n, fail, log]: n counts the     *)
(* Driver transactions of the call, log lists them, and the transaction    *)
(* number fail (if any) is the one the Driver refuses.                     *)
(***************************************************************************)
\* fans.rs:365
KeyFS == [fan |-> -1, reg |-> "FS! "]

\* The buffer the facade builds from the DataType a GetKeyInfo returned and
\* the bytes it read (or zeroes, before an encoder fills it).
SMCVal(ty, data) == [type |-> ty, len |-> Width(ty), data |-> data]

\* One Driver transaction: the context afterwards.
DTx(c, sel, key) ==
  [c EXCEPT !.n = c.n + 1, !.log = Append(c.log, Tx(sel, key))]
Refused(c) == c.n = c.fail
\* The outcomes of the next two transactions, for the two-transaction
\* operators of the speed registers.
OksOf(c) == [k \in 1..2 |-> c.n + k # c.fail]
\* The context after a two-transaction operator returned r.
After(c, r) == [c EXCEPT !.n = c.n + Len(r.log), !.log = c.log \o r.log]

\* u16 bit operations: bit i of x, and the u16 with bits b[0..15].
U16_BITS == 16
Bit(x, i) == (x \div (2 ^ i)) % 2
Pack(b) ==
  LET s[i \in 0..U16_BITS] == IF i = U16_BITS THEN 0 ELSE b[i] * (2 ^ i) + s[i + 1]
  IN s[0]
\* x & y, x | y, !x
And(x, y) == Pack([i \in 0..(U16_BITS - 1) |-> Bit(x, i) * Bit(y, i)])
Or(x, y) == Pack([i \in 0..(U16_BITS - 1) |-> Max2(Bit(x, i), Bit(y, i))])
Not(x) == Pack([i \in 0..(U16_BITS - 1) |-> 1 - Bit(x, i)])
\* 1u16 << (id as u16), for id < 16
Shl1(id) == 2 ^ id

\* SMC::read_key::<u16> of the trait-based facade: GetKeyInfo, ReadKey, decode.
smc_read_u16(c, key) ==
  LET c1 == DTx(c, "GetKeyInfo", key)
      c2 == DTx(c1, "ReadKey", key)
      d  == u16_from_smc(SMCVal(c.drv.ty, c.drv.data), c.drv.host)
  IN IF Refused(c1) THEN [c |-> c1, ret |-> "Driver", v |-> 0]
     ELSE IF Refused(c2) THEN [c |-> c2, ret |-> "Driver", v |-> 0]
     ELSE IF ~d.ok THEN [c |-> c2, ret |-> "TryFrom", v |-> 0]
     ELSE [c |-> c2, ret |-> "Ok", v |-> d.v.lo]

\* SMC::write_key of the trait-based facade for a u16 payload: GetKeyInfo,
\* encode, WriteKey; the Driver stores what a successful WriteKey sends.
smc_write_u16(c, key, n) ==
  LET c1 == DTx(c, "GetKeyInfo", key)
      c2 == DTx(c1, "WriteKey", key)
      e  == write_u16(W(n), SMCVal(c.drv.ty, Zeroes(Width(c.drv.ty))))
  IN IF Refused(c1) THEN [c |-> c1, ret |-> "Driver"]
     ELSE IF ~e.ok THEN [c |-> c1, ret |-> "TryInto"]
     ELSE IF Refused(c2) THEN [c |-> c2, ret |-> "Driver"]
     ELSE [c |-> [c2 EXCEPT !.drv.data = e.val.data], ret |-> "Ok"]

\* fans.rs:363-366
managed_fans(c) == smc_read_u16(c, KeyFS)

\* fans.rs:58-60
is_managed(c, id) ==
  LET r == managed_fans(c)
  IN [c |-> r.c, ret |-> r.ret, v |-> (r.ret = "Ok" /\ And(r.v, Shl1(id)) = 0)]

\* fan_set_managed writing the mask even when it is unchanged: a faulty
\* variant that SetManagedWritesIffChanged must reject.
fan_set_managed_AlwaysWrites(c, id, managed) ==
  LET r    == managed_fans(c)
      mask == Shl1(id)
      new  == IF managed THEN And(r.v, Not(mask)) ELSE Or(r.v, mask)
  IN IF r.ret # "Ok" THEN [c |-> r.c, ret |-> r.ret]
     ELSE smc_write_u16(r.c, KeyFS, new)

\* fan_set_managed setting the bit for managed = true: a faulty variant
\* that SetManagedRMW must reject.
fan_set_managed_Inverted(c, id, managed) ==
  LET r    == managed_fans(c)
      mask == Shl1(id)
      new  == IF managed THEN Or(r.v, mask) ELSE And(r.v, Not(mask))
  IN IF r.ret # "Ok" THEN [c |-> r.c, ret |-> r.ret]
     ELSE IF r.v # new THEN smc_write_u16(r.c, KeyFS, new)
     ELSE [c |-> r.c, ret |-> "Ok"]

\* fans.rs:368-389
fan_set_managed(c, id, managed) ==
  LET r    == managed_fans(c)
      mask == Shl1(id)
      new  == IF managed THEN And(r.v, Not(mask)) ELSE Or(r.v, mask)
  IN IF r.ret # "Ok" THEN [c |-> r.c, ret |-> r.ret]
     ELSE IF r.v # new THEN smc_write_u16(r.c, KeyFS, new)
     ELSE [c |-> r.c, ret |-> "Ok"]

\* fans.rs:112-129 against the context: the range test, then the write of
\* F{id}Tg, whose declared type is ty.
ctx_set_current_speed(c, id, min, max, speed, ty) ==
  LET w == set_current_speed(id, min, max, speed, ty, OksOf(c))
  IN [c |-> After(c, w), ret |-> w.ret]

\* conversions.rs:158-166: u16 of the Arc-based facade; ok = FALSE is the
\* panic on any other type.  No length is checked.
lib_u16_from_smc(ty, data, h) ==
  CASE ty = TYPE_U8  -> [ok |-> TRUE, v |-> data[1]]
    [] ty = TYPE_I16 -> [ok |-> TRUE, v |-> Unsigned(from_be(NativeRead(data, 2, h), h)).lo]
    [] OTHER -> [ok |-> FALSE, v |-> 0]

\* conversions.rs:142-156
lib_u16_to_smc(n, ty) ==
  IF ty = TYPE_U16
    THEN [ok |-> TRUE, data |-> to_be_bytes(W(n), 2)]
    ELSE [ok |-> FALSE, data |-> <<>>]

\* lib.rs:362-368 for a u16: key_information, read_data, from_smc
lib_read_u16(c, key) ==
  LET c1 == DTx(c, "GetKeyInfo", key)
      c2 == DTx(c1, "ReadKey", key)
      d  == lib_u16_from_smc(c.drv.ty, c.drv.data, c.drv.host)
  IN IF Refused(c1) THEN [c |-> c1, ret |-> "Driver", v |-> 0]
     ELSE IF Refused(c2) THEN [c |-> c2, ret |-> "Driver", v |-> 0]
     ELSE IF ~d.ok THEN [c |-> c2, ret |-> "Panic", v |-> 0]
     ELSE [c |-> c2, ret |-> "Ok", v |-> d.v]

\* lib.rs:370-376 for a u16: key_information, to_smc, call_driver
lib_write_u16(c, key, n) ==
  LET c1 == DTx(c, "GetKeyInfo", key)
      c2 == DTx(c1, "WriteKey", key)
      e  == lib_u16_to_smc(n, c.drv.ty)
  IN IF Refused(c1) THEN [c |-> c1, ret |-> "Driver"]
     ELSE IF ~e.ok THEN [c |-> c1, ret |-> "Panic"]
     ELSE IF Refused(c2) THEN [c |-> c2, ret |-> "Driver"]
     ELSE [c |-> [c2 EXCEPT !.drv.data = e.data], ret |-> "Ok"]

\* lib.rs:510-513
LibFan_is_managed(c, id) ==
  LET r == lib_read_u16(c, KeyFS)
  IN [c |-> r.c, ret |-> r.ret, v |-> (r.ret = "Ok" /\ And(r.v, Shl1(id)) = 0)]

\* lib.rs:515-529
LibFan_set_managed(c, id, what) ==
  LET r    == lib_read_u16(c, KeyFS)
      mask == Shl1(id)
      new  == IF what THEN And(r.v, Not(mask)) ELSE Or(r.v, mask)
  IN IF r.ret # "Ok" THEN [c |-> r.c, ret |-> r.ret]
     ELSE IF r.v # new THEN lib_write_u16(r.c, KeyFS, new)
     ELSE [c |-> r.c, ret |-> "Ok"]

\* lib.rs:541-551
LibFan_set_current_speed(c, id, speed, rdMin, rdMax, ty) ==
  LET a  == read_key(Key(id, "Mn"), rdMin, OksOf(c))
      c1 == After(c, a)
      b  == read_key(Key(id, "Mx"), rdMax, OksOf(c1))
      c2 == After(c1, b)
      m  == LibFan_set_managed(c2, id, FALSE)
      w  == write_key(Key(id, "Tg"), speed, ty, OksOf(m.c))
  IN IF a.ret # "Ok" THEN [c |-> c1, ret |-> a.ret]
     ELSE IF b.ret # "Ok" THEN [c |-> c2, ret |-> b.ret]
     ELSE IF FLe(speed, a.val) \/ FGt(speed, b.val)
       THEN [c |-> c2, ret |-> "UnsafeFanSpeed"]
     ELSE IF m.ret # "Ok" THEN m
     ELSE [c |-> After(m.c, w), ret |-> w.ret]

\* Bits of the mask the Driver may hold at the start; fan ids stay below it.
MaskBits == 3
\* The declared types tried for "FS! ".
MaskRegTypes == {TYPE_U16, TYPE_U8, TYPE_I16}
\* The Driver transactions a call makes at most: one typed read or write
\* is 2, fan_set_managed 4, the Arc-based set_current_speed 10.
RwTx == 2
SetManagedTx == 4
LibSetSpeedTx == 10
\* The speeds and speed registers tried by the calls of this component.
MSpeeds == { f \in Floats : ~f.nan /\ f.v \in {0, MaxSpeed} }
MSpeedRegs == { r \in RegReads : r.ty = "fpe2" /\ r.v \in MSpeeds }
MSpeedTypes == {"fpe2", "ui8 "}

Ctx(drv, fail) == [drv |-> drv, n |-> 0, fail |-> fail, log |-> <<>>]
NoOp ==
  [op |-> "none", id |-> 0, managed |-> FALSE, data0 |-> <<>>, ret |-> "none",
   log |-> <<>>]

ManagedStart ==
  /\ mDrv \in { [host |-> h, ty |-> ty, data |-> to_be_bytes(W(m), Width(ty))] :
                 h \in Hosts, ty \in MaskRegTypes, m \in 0..(2 ^ MaskBits - 1) }
  /\ mOp = NoOp
  /\ mRepeat = "no"

ManagedIdle ==
  /\ mDrv = [host |-> "le", ty |-> TYPE_U16, data |-> <<0, 0>>]
  /\ mOp = NoOp
  /\ mRepeat = "no"

\* What one call leaves behind: the Driver's register, the call and its
\* transactions, and whether it repeats a successful call.
ManagedRecord(op, id, managed, r) ==
  /\ mDrv' = r.c.drv
  /\ mOp' = [op |-> op, id |-> id, managed |-> managed, data0 |-> mDrv.data,
             ret |-> r.ret, log |-> r.c.log]
  /\ mRepeat' = IF mOp.op = op /\ mOp.id = id /\ mOp.managed = managed
                     /\ mOp.ret = "Ok"
                  THEN IF \E k \in 1..Len(mOp.log) :
                            mOp.log[k] = Tx("WriteKey", KeyFS)
                         THEN "wrote" ELSE "quiet"
                  ELSE "no"
  /\ UNCHANGED notManagedVars

MFanSetManaged ==
  \E id \in FanIds, managed \in BOOLEAN, fail \in 0..SetManagedTx :
    ManagedRecord("fan_set_managed", id, managed,
                  fan_set_managed(Ctx(mDrv, fail), id, managed))

MIsManaged ==
  \E id \in FanIds, fail \in 0..RwTx :
    ManagedRecord("is_managed", id, FALSE, is_managed(Ctx(mDrv, fail), id))

\* set_current_speed(smc, id, min, max, speed) of fans.rs, with min = 0
MSetCurrentSpeed ==
  \E id \in FanIds, max \in MSpeeds, speed \in MSpeeds,
     ty \in MSpeedTypes, fail \in 0..RwTx :
    ManagedRecord("set_current_speed", id, FALSE,
                  ctx_set_current_speed(Ctx(mDrv, fail), id, Zero, max, speed, ty))

MLibSetManaged ==
  \E id \in FanIds, what \in BOOLEAN, fail \in 0..SetManagedTx :
    ManagedRecord("lib::Fan::set_managed", id, what,
                  LibFan_set_managed(Ctx(mDrv, fail), id, what))

MLibIsManaged ==
  \E id \in FanIds, fail \in 0..RwTx :
    ManagedRecord("lib::Fan::is_managed", id, FALSE,
                  LibFan_is_managed(Ctx(mDrv, fail), id))

MLibSetCurrentSpeed ==
  \E id \in FanIds, speed \in MSpeeds, rdMax \in MSpeedRegs,
     ty \in MSpeedTypes, fail \in 0..LibSetSpeedTx :
    ManagedRecord("lib::Fan::set_current_speed", id, FALSE,
                  LibFan_set_current_speed(Ctx(mDrv, fail), id, speed,
                                           [ty |-> "fpe2", v |-> Zero], rdMax, ty))

(***************************************************************************)
(* rpm and percent (fans.rs:62-75).  A speed is [nan, v] as in the gate;   *)
(* a quotient is [kind, num, den]: the fraction num / den with den > 0     *)
(* when kind is "num", and an infinity or a NaN otherwise.  Every speed    *)
(* tried is a small integer, so the subtractions are exact; the rounding   *)
(* of the division is not modelled.                                        *)
(***************************************************************************)
NaN == [nan |-> TRUE, v |-> 1]
F(v) == [nan |-> FALSE, v |-> v]
\* a - b
FSub(a, b) == IF a.nan \/ b.nan THEN NaN ELSE F(a.v - b.v)

Quot(n, d) == [kind |-> "num", num |-> n, den |-> d]
QNaN == [kind |-> "nan", num |-> 0, den |-> 1]
QInf(neg) == [kind |-> IF neg THEN "-inf" ELSE "inf", num |-> 0, den |-> 1]
\* a / b * 100.0
FDivTimes100(a, b) ==
  IF a.nan \/ b.nan THEN QNaN
  ELSE IF b.v = 0 THEN (IF a.v = 0 THEN QNaN ELSE QInf(a.v < 0))
  ELSE IF b.v < 0 THEN Quot(-(a.v * 100), -b.v)
  ELSE Quot(a.v * 100, b.v)

\* fans.rs:62-68
rpm(current, min) ==
  LET r == FSub(current, min)
  IN IF FLt(r, Zero) THEN Zero ELSE r

\* percent without the floor at zero: a faulty variant that PercentFormula
\* must reject.
percent_NoFloor(current, min, max) ==
  FDivTimes100(FSub(current, min), FSub(max, min))

\* fans.rs:70-75
percent(current, min, max) ==
  LET r0 == FSub(current, min)
      r  == IF FLt(r0, Zero) THEN Zero ELSE r0
  IN FDivTimes100(r, FSub(max, min))

\* The speeds tried.
PctSpeeds == { F(v) : v \in {-1, 0, 5, 10, 100, 150} } \cup {NaN}

NoPctOp == [op |-> "none"]
PercentStart == pOp = NoPctOp
PercentIdle == pOp = NoPctOp

\* FanInfo::rpm (fans.rs:250-252)
PRpm ==
  /\ pOp.op = "none"
  /\ \E current \in PctSpeeds, min \in PctSpeeds :
       pOp' = [op |-> "rpm", current |-> current, min |-> min, max |-> Zero,
               rpm |-> rpm(current, min), pct |-> QNaN]
  /\ UNCHANGED notPercentVars

\* FanInfo::percent (fans.rs:255-257)
PPercent ==
  /\ pOp.op = "none"
  /\ \E current \in PctSpeeds, min \in PctSpeeds, max \in PctSpeeds :
       pOp' = [op |-> "percent", current |-> current, min |-> min,
               max |-> max, rpm |-> Zero,
               pct |-> percent(current, min, max)]
  /\ UNCHANGED notPercentVars

\* The caller takes the result.
PReturn ==
  /\ pOp.op # "none"
  /\ pOp' = NoPctOp
  /\ UNCHANGED notPercentVars

(***************************************************************************)
(* FanInfo::refresh (fans.rs:279-286).  A snapshot is [id, min_speed,      *)
(* max_speed, current_speed, managed]; each of the four reads of a refresh *)
(* either fails or returns a value, as the Driver decides.                 *)
(***************************************************************************)
ReadErr == [ok |-> FALSE, v |-> 0]
ReadOk(v) == [ok |-> TRUE, v |-> v]

\* fans.rs:279-286: the fields are assigned one by one, each read's `?`
\* returning at once.  rd[k] is the outcome of the k-th read.
FanInfo_refresh(info, rd) ==
  LET i1 == [info EXCEPT !.min_speed = rd[1].v]
      i2 == [i1 EXCEPT !.max_speed = rd[2].v]
      i3 == [i2 EXCEPT !.current_speed = rd[3].v]
      i4 == [i3 EXCEPT !.managed = (Bit(rd[4].v, info.id) = 0)]
  IN IF ~rd[1].ok THEN [info |-> info, ret |-> "Err", reads |-> 1]
     ELSE IF ~rd[2].ok THEN [info |-> i1, ret |-> "Err", reads |-> 2]
     ELSE IF ~rd[3].ok THEN [info |-> i2, ret |-> "Err", reads |-> 3]
     ELSE IF ~rd[4].ok THEN [info |-> i3, ret |-> "Err", reads |-> 4]
     ELSE [info |-> i4, ret |-> "Ok", reads |-> 4]

\* The speeds and the masks the Driver may return, and the snapshots
\* into_info may have built.
InfoSpeeds == {0, 1}
InfoMasks == 0..3
InfoReadsOf(vals) == {ReadErr} \cup { ReadOk(v) : v \in vals }
FanInfoSnapshots ==
  [id : {0, 1}, min_speed : InfoSpeeds, max_speed : InfoSpeeds,
   current_speed : InfoSpeeds, managed : BOOLEAN]

NoInfoOp == [op |-> "none"]
InfoStart ==
  /\ iInfo \in FanInfoSnapshots
  /\ iOp = NoInfoOp
InfoIdle ==
  /\ iInfo = [id |-> 0, min_speed |-> 0, max_speed |-> 0,
              current_speed |-> 0, managed |-> TRUE]
  /\ iOp = NoInfoOp

\* info.refresh(smc)
IRefresh ==
  /\ iOp.op = "none"
  /\ \E r1 \in InfoReadsOf(InfoSpeeds), r2 \in InfoReadsOf(InfoSpeeds),
        r3 \in InfoReadsOf(InfoSpeeds), r4 \in InfoReadsOf(InfoMasks) :
       LET rd == <<r1, r2, r3, r4>>
           r  == FanInfo_refresh(iInfo, rd)
       IN /\ iInfo' = r.info
          /\ iOp' = [op |-> "refresh", info0 |-> iInfo,
                     rd |-> SubSeq(rd, 1, r.reads), ret |-> r.ret]
  /\ UNCHANGED notInfoVars

\* The caller takes the result.
IReturn ==
  /\ iOp.op # "none"
  /\ iOp' = NoInfoOp
  /\ UNCHANGED <<iInfo, notInfoVars>>

(***************************************************************************)
(* The connection of the Arc-based facade (lib.rs:248-396) shared by two   *)
(* threads, each holding a Fan handle on it and calling set_managed once.  *)
(* A thread is [at, what, phase, req, txs, bitmask, cut, ret]: at is where *)
(* it stands ("idle", "want" the connection mutex, "calling" the Driver    *)
(* with the mutex held, "done", or "panic"), phase the Driver call of      *)
(* set_managed it is at (1 GetKeyInfo and 2 ReadKey of read_key, 3         *)
(* GetKeyInfo and 4 WriteKey of write_key), req the SMCParam of that call, *)
(* txs the calls it has made with their outcome.  cut is history: another  *)
(* thread's call ran between the two calls of its read_key or write_key.   *)
(***************************************************************************)
Threads == {1, 2}
\* The Fan handle of thread t is the fan t - 1.
FanOf(t) == t - 1

\* lib.rs:126-130
kIOReturnSuccess == 0
kIOReturnNotPrivileged == -536870207
\* lib.rs:295
SMC_KEY_NOT_FOUND == 132

Result(kind, key, io, rb) == [kind |-> kind, key |-> key, io |-> io, rb |-> rb]
DriverOk == Result("Ok", "", 0, 0)

\* call_driver taking every reply of a successful IO call for a success: a
\* faulty variant that DriverClassification must reject.
call_driver_IgnoresResult(key, io, rb) ==
  CASE io = kIOReturnSuccess -> DriverOk
    [] io = kIOReturnNotPrivileged -> Result("NotPrivileged", "", 0, 0)
    [] OTHER -> Result("Unknown", "", io, rb)

\* lib.rs:293-298: the match on (result, output.result)
call_driver(key, io, rb) ==
  CASE io = kIOReturnSuccess /\ rb = 0 -> DriverOk
    [] io = kIOReturnSuccess /\ rb = SMC_KEY_NOT_FOUND ->
         Result("KeyNotFound", key, 0, 0)
    [] io = kIOReturnNotPrivileged -> Result("NotPrivileged", "", 0, 0)
    [] OTHER -> Result("Unknown", "", io, rb)

\* A mutex that is never held: a faulty variant that OneCallInFlight must
\* reject.
MutexFree_Always(lock) == TRUE
\* lib.rs:280: self.0.lock() returns when no thread holds the mutex
MutexFree(lock) == lock = 0

\* The SMCParam of each Driver call (lib.rs:305-310, 322-328, 336-340).
GetKeyInfoReq(key) ==
  [sel |-> "GetKeyInfo", key |-> key, size |-> 0, bytes |-> <<>>]
\* A ReadKey that leaves data_size at its default: a faulty variant that
\* TwoTransactions must reject.
ReadKeyReq_NoSize(key, ty) ==
  [sel |-> "ReadKey", key |-> key, size |-> 0, bytes |-> <<>>]
ReadKeyReq(key, ty) ==
  [sel |-> "ReadKey", key |-> key, size |-> Width(ty), bytes |-> <<>>]
WriteKeyReq(key, ty, bytes) ==
  [sel |-> "WriteKey", key |-> key, size |-> Width(ty), bytes |-> bytes]
NoReq == [sel |-> "none", key |-> "", size |-> 0, bytes |-> <<>>]

IdleThread ==
  [at |-> "idle", what |-> FALSE, phase |-> 0, req |-> NoReq, txs |-> <<>>,
   bitmask |-> 0, cut |-> FALSE, ret |-> DriverOk]

\* lib.rs:518-522
NewMask(bitmask, id, what) ==
  IF what THEN And(bitmask, Not(Shl1(id))) ELSE Or(bitmask, Shl1(id))

\* Fan::set_managed (lib.rs:515-529) resumed after the Driver call tx has
\* returned; bytes is output.bytes.  A failed call is returned by `?`.
set_managed_resume(th, id, tx, bytes, h) ==
  LET t1 == [th EXCEPT !.txs = Append(th.txs, tx), !.req = NoReq]
      want(p, req) == [t1 EXCEPT !.at = "want", !.phase = p, !.req = req]
      done(r) == [t1 EXCEPT !.at = "done", !.ret = r]
      d == lib_u16_from_smc(th.txs[1].ty, bytes, h)
      e == lib_u16_to_smc(NewMask(th.bitmask, id, th.what), tx.ty)
  IN IF tx.out.kind # "Ok" THEN done(tx.out)
     ELSE CASE th.phase = 1 -> want(2, ReadKeyReq("FS! ", tx.ty))
            [] th.phase = 2 ->
                 IF ~d.ok THEN [t1 EXCEPT !.at = "panic"]
                 ELSE IF d.v # NewMask(d.v, id, th.what)
                   THEN [want(3, GetKeyInfoReq("FS! ")) EXCEPT !.bitmask = d.v]
                 ELSE [done(DriverOk) EXCEPT !.bitmask = d.v]
            [] th.phase = 3 ->
                 IF ~e.ok THEN [t1 EXCEPT !.at = "panic"]
                 ELSE want(4, WriteKeyReq("FS! ", tx.ty, e.data))
            [] OTHER -> done(DriverOk)

\* The replies of the Driver that are tried: IO codes, result bytes, and the
\* type GetKeyInfo reports for FS!.
IoCodes == {kIOReturnSuccess, kIOReturnNotPrivileged, kIOReturnNotPrivileged + 1}
ResultBytes == {0, 1, SMC_KEY_NOT_FOUND}
ConnTypes == {TYPE_U8, TYPE_I16, TYPE_U16}
ConnHost == "le"
ConnMasks == { to_be_bytes(W(n), 2) : n \in 0..3 }

\* output.bytes of a ReadKey of size bytes: the register's value in a
\* register of the width GetKeyInfo reported, most significant byte first.
DriverBytes(reg, size) == SubSeq(reg, Len(reg) - size + 1, Len(reg))

ConnStart ==
  /\ xReg \in ConnMasks
  /\ xLock = 0
  /\ xT = [t \in Threads |-> IdleThread]
ConnIdle ==
  /\ xReg = <<0, 0>>
  /\ xLock = 0
  /\ xT = [t \in Threads |-> IdleThread]

\* fan.set_managed(what) is called: read_key starts with key_information
XSetManaged(t) ==
  /\ xT[t].at = "idle"
  /\ \E what \in BOOLEAN :
       xT' = [xT EXCEPT ![t] = [@ EXCEPT !.at = "want", !.what = what,
                                         !.phase = 1,
                                         !.req = GetKeyInfoReq("FS! ")]]
  /\ UNCHANGED <<xReg, xLock, notConnVars>>

\* call_driver takes the connection mutex (lib.rs:280)
XLock(t) ==
  /\ xT[t].at = "want"
  /\ MutexFree(xLock)
  /\ xLock' = t
  /\ xT' = [xT EXCEPT ![t].at = "calling"]
  /\ UNCHANGED <<xReg, notConnVars>>

\* IOConnectCallStructMethod runs and returns, call_driver classifies the
\* reply and drops the mutex (lib.rs:282-298), and set_managed goes on to
\* its next Driver call or returns.
XDriver(t) ==
  /\ xT[t].at = "calling"
  /\ \E io \in IoCodes, rb \in ResultBytes, ty \in ConnTypes :
       LET req == xT[t].req
           out == call_driver(req.key, io, rb)
           tx  == [sel |-> req.sel, key |-> req.key, size |-> req.size,
                   io |-> io, rb |-> rb, out |-> out,
                   ty |-> IF req.sel = "GetKeyInfo" /\ out.kind = "Ok"
                            THEN ty ELSE "none"]
       IN /\ xReg' = IF req.sel = "WriteKey" /\ out.kind = "Ok"
                       THEN req.bytes ELSE xReg
          /\ xT' = [u \in Threads |->
                      IF u = t
                        THEN set_managed_resume(xT[t], FanOf(t), tx,
                                                DriverBytes(xReg, req.size),
                                                ConnHost)
                      ELSE IF xT[u].at = "want" /\ xT[u].phase \in {2, 4}
                        THEN [xT[u] EXCEPT !.cut = TRUE]
                      ELSE xT[u]]
  /\ xLock' = 0
  /\ UNCHANGED notConnVars

(***************************************************************************)
(* The process-wide shared connection: SHARED and SMC::shared             *)
(* (lib.rs:401-403, 575-586), SMCRepr::new (lib.rs:250-271) and the Drop   *)
(* of SMCRepr (lib.rs:391-396).  Connections are numbered in the order     *)
(* they are opened; 0 stands for no connection.                            *)
(***************************************************************************)
Sharers == 1..MaxSharers

\* A SHARED.lock() that never waits: a faulty variant that SharedSingleton
\* must reject.
SharedFree_Always(lock) == TRUE
\* SHARED.lock() can be taken (lib.rs:576)
SharedFree(lock) == lock = 0

\* The outcomes of SMCRepr::new (lib.rs:250-271)
NewResults == {"Ok", "DriverNotFound", "FailedToOpen"}
\* The connections opened so far
Opened(new) == Len(SelectSeq(new, LAMBDA r : r = "Ok"))

\* Arc::clone: one more strong reference to connection c
ArcClone(refs, c) == [refs EXCEPT ![c] = @ + 1]
\* Dropping an Arc (or overwriting an Option<Arc>): one strong reference
\* less; the last one runs Drop for SMCRepr, which closes the connection
\* (lib.rs:391-396).
ArcDrop(refs, c) == IF c = 0 THEN refs ELSE [refs EXCEPT ![c] = @ - 1]
Closes(refs, c) == IF c # 0 /\ refs[c] = 1 THEN {c} ELSE {}

IdleSharer == [at |-> "idle", handle |-> 0, calls |-> 0, ret |-> "none"]

SharedStart ==
  /\ sSlot = 0
  /\ sLock = 0
  /\ sT = [t \in Sharers |-> IdleSharer]
  /\ sNew = <<>>
  /\ sRefs = <<>>
  /\ sClosed = {}
SharedIdle ==
  /\ sSlot = 0
  /\ sLock = 0
  /\ sT = <<>>
  /\ sNew = <<>>
  /\ sRefs = <<>>
  /\ sClosed = {}

\* SMC::shared() is called and takes the lock of SHARED (lib.rs:576)
SEnter(t) ==
  /\ sT[t].at = "idle"
  /\ sT[t].calls < MaxCalls
  /\ SharedFree(sLock)
  /\ sLock' = t
  /\ sT' = [sT EXCEPT ![t] = [@ EXCEPT !.at = "locked", !.calls = @ + 1]]
  /\ UNCHANGED <<sSlot, sNew, sRefs, sClosed, notSharedVars>>

\* match (*shared).as_ref() (lib.rs:577)
SMatch(t) ==
  /\ sT[t].at = "locked"
  /\ sT' = [sT EXCEPT ![t].at = IF sSlot = 0 THEN "none" ELSE "some"]
  /\ UNCHANGED <<sSlot, sLock, sNew, sRefs, sClosed, notSharedVars>>

\* The None arm (lib.rs:578-583): SMCRepr::new()?, then the new Arc is
\* cloned for the handle and stored in the slot; the guard is dropped on
\* either way out.
SOpen(t) ==
  /\ sT[t].at = "none"
  /\ \E r \in NewResults :
       LET c == Len(sRefs) + 1
       IN /\ sNew' = Append(sNew, r)
          /\ IF r = "Ok"
               THEN /\ sRefs' = Append(ArcDrop(sRefs, sSlot), 2)
                    /\ sClosed' = sClosed \cup Closes(sRefs, sSlot)
                    /\ sSlot' = c
                    /\ sT' = [sT EXCEPT ![t] = [@ EXCEPT !.at = "has",
                                                         !.handle = c,
                                                         !.ret = "Ok"]]
               ELSE /\ sT' = [sT EXCEPT ![t] = [@ EXCEPT !.at = "idle",
                                                         !.ret = r]]
                    /\ UNCHANGED <<sSlot, sRefs, sClosed>>
  /\ sLock' = 0
  /\ UNCHANGED notSharedVars

\* The Some arm (lib.rs:584): the handle is a clone of the slot's Arc
SClone(t) ==
  /\ sT[t].at = "some"
  /\ sRefs' = ArcClone(sRefs, sSlot)
  /\ sT' = [sT EXCEPT ![t] = [@ EXCEPT !.at = "has", !.handle = sSlot,
                                       !.ret = "Ok"]]
  /\ sLock' = 0
  /\ UNCHANGED <<sSlot, sNew, sClosed, notSharedVars>>

\* The caller drops the SMC handle it got
SDrop(t) ==
  /\ sT[t].at = "has"
  /\ sRefs' = ArcDrop(sRefs, sT[t].handle)
  /\ sClosed' = sClosed \cup Closes(sRefs, sT[t].handle)
  /\ sT' = [sT EXCEPT ![t] = [@ EXCEPT !.at = "idle", !.handle = 0]]
  /\ UNCHANGED <<sSlot, sLock, sNew, notSharedVars>>

(***************************************************************************)
(* Specifications.                                                         *)
(***************************************************************************)
InitKeys ==
  /\ KeysStart
  /\ FansIdle /\ GateIdle /\ ManagedIdle /\ CodecIdle /\ PercentIdle
  /\ InfoIdle /\ ConnIdle /\ SharedIdle
NextKeys == KNext \/ KNextBack \/ KNth \/ KNthBack \/ KLast
SpecKeys == InitKeys /\ [][NextKeys]_vars

InitFans ==
  /\ FansStart
  /\ KeysIdle /\ GateIdle /\ ManagedIdle /\ CodecIdle /\ PercentIdle
  /\ InfoIdle /\ ConnIdle /\ SharedIdle
NextFans == FNext \/ FNextBack \/ FNth \/ FNthBack \/ FLast
SpecFans == InitFans /\ [][NextFans]_vars

InitGate ==
  /\ GateStart
  /\ KeysIdle /\ FansIdle /\ ManagedIdle /\ CodecIdle /\ PercentIdle
  /\ InfoIdle /\ ConnIdle /\ SharedIdle
NextGate ==
  \/ GSetMinSpeed \/ GSetCurrentSpeed
  \/ GFanSetMinSpeed \/ GFanSetCurrentSpeed
  \/ GLibFanSetMinSpeed
  \/ GReturn
SpecGate == InitGate /\ [][NextGate]_vars

InitManaged ==
  /\ ManagedStart
  /\ KeysIdle /\ FansIdle /\ GateIdle /\ CodecIdle /\ PercentIdle
  /\ InfoIdle /\ ConnIdle /\ SharedIdle
NextManaged ==
  \/ MFanSetManaged \/ MIsManaged \/ MSetCurrentSpeed
  \/ MLibSetManaged \/ MLibIsManaged \/ MLibSetCurrentSpeed
SpecManaged == InitManaged /\ [][NextManaged]_vars

InitCodec ==
  /\ CodecStart
  /\ KeysIdle /\ FansIdle /\ GateIdle /\ ManagedIdle /\ PercentIdle
  /\ InfoIdle /\ ConnIdle /\ SharedIdle
NextCodec == CDecode \/ CEncode \/ CEncodeF32 \/ CReturn
SpecCodec == InitCodec /\ [][NextCodec]_vars

InitPercent ==
  /\ PercentStart
  /\ KeysIdle /\ FansIdle /\ GateIdle /\ ManagedIdle /\ CodecIdle
  /\ InfoIdle
  /\ ConnIdle /\ SharedIdle
NextPercent == PRpm \/ PPercent \/ PReturn
SpecPercent == InitPercent /\ [][NextPercent]_vars

InitInfo ==
  /\ InfoStart
  /\ KeysIdle /\ FansIdle /\ GateIdle /\ ManagedIdle /\ CodecIdle
  /\ PercentIdle
  /\ ConnIdle /\ SharedIdle
NextInfo == IRefresh \/ IReturn
SpecInfo == InitInfo /\ [][NextInfo]_vars

InitConn ==
  /\ ConnStart
  /\ KeysIdle /\ FansIdle /\ GateIdle /\ ManagedIdle /\ CodecIdle
  /\ PercentIdle /\ InfoIdle /\ SharedIdle
NextConn == \E t \in Threads : XSetManaged(t) \/ XLock(t) \/ XDriver(t)
SpecConn == InitConn /\ [][NextConn]_vars

InitShared ==
  /\ SharedStart
  /\ KeysIdle /\ FansIdle /\ GateIdle /\ ManagedIdle /\ CodecIdle
  /\ PercentIdle /\ InfoIdle /\ ConnIdle
NextShared ==
  \E t \in Sharers : SEnter(t) \/ SMatch(t) \/ SOpen(t) \/ SClone(t) \/ SDrop(t)
SpecShared == InitShared /\ [][NextShared]_vars

(***************************************************************************)
(* Claims about the Keys walker (SpecKeys).                                *)
(***************************************************************************)
\* The indices of 0..N-1 a call log has not fetched.
NotYet(log, N) == (0..(N - 1)) \ LogIdx(log)

\* The Keys log as it was before the last call.
KLogBefore == LogBefore(kLog, IF kRes.idx >= 0 THEN 1 ELSE 0)

(* C1: after any sequence of next, next_back, nth(n), nth_back(n) calls,   *)
(* with any n and any Driver outcomes, pos <= len and len() is exactly     *)
(* len - pos, without u32 underflow.  (last() consumes the walker, so it   *)
(* ends the sequence.)                                                     *)
KeysPosLeLen ==
  kFlag.alive =>
    /\ kw.pos <= kw.len
    /\ kw.len <= kN
    /\ KeysLen(kw) = kw.len - kw.pos

\* nth(u32::MAX) from pos > 0 (checked_add overflows) on a walker that
\* still had items.
KeysPosLeLenWitness ==
  /\ kFlag.alive
  /\ kRes.op = "nth" /\ kRes.n = U32_MAX
  /\ kRes.pos0 > 0 /\ kRes.len0 > kRes.pos0
  /\ kw.pos = kw.len

\* Only next() and next_back() were called and no Driver lookup failed.
KeysEndsOnly ==
  kFlag.alive /\ ~kFlag.other /\ ~kFlag.nextErr /\ ~kFlag.backErr

(* C2: with no Driver errors and only next()/next_back() calls, next()     *)
(* yields the lowest index not yet yielded, next_back() the highest, no    *)
(* index is yielded twice or skipped, and a call returns None exactly      *)
(* when pos = len.                                                         *)
KeysExactlyOnce ==
  KeysEndsOnly =>
    LET rest == NotYet(KLogBefore, kN)
    IN /\ Cardinality(LogIdx(kLog)) = Len(kLog)
       /\ LogIdx(kLog) \subseteq 0..(kN - 1)
       /\ NotYet(kLog, kN) = kw.pos..(kw.len - 1)
       /\ (kw.pos = kw.len) => LogIdx(kLog) = 0..(kN - 1)
       /\ kRes.op \in {"next", "next_back"} =>
            /\ (kRes.ret = "None") <=> (kRes.pos0 = kRes.len0)
            /\ (kRes.ret = "None") <=> (rest = {})
       /\ (kRes.op = "next" /\ rest # {}) =>
            (kRes.ret = "Ok" /\ kRes.idx = SetMin(rest))
       /\ (kRes.op = "next_back" /\ rest # {}) =>
            (kRes.ret = "Ok" /\ kRes.idx = SetMax(rest))

\* A table of at least 3 entries walked from both ends to exhaustion, the
\* last call returning None.
KeysExactlyOnceWitness ==
  /\ KeysEndsOnly
  /\ kN >= 3 /\ Len(kLog) = kN
  /\ kLog[1].i = kN - 1 /\ kLog[2].i = 0
  /\ kRes.ret = "None" /\ kw.pos = kw.len

(* C4: when the lookup made by Keys::next() fails, the walker is collapsed *)
(* (pos = len) and every later call returns None without a Driver call.    *)
KeysNextErrCollapses ==
  /\ kFlag.nextErr => kw.pos = kw.len
  /\ kRes.nextErr0 => (kRes.ret = "None" /\ kRes.idx = -1)

\* A call made after next() failed while entries were still unvisited.
KeysNextErrWitness ==
  /\ kRes.nextErr0 /\ ~kRes.backErr0
  /\ kRes.op = "next_back"
  /\ Cardinality(LogIdx(kLog)) + 2 <= kN

(* C5: when the lookup made by Keys::next_back() (or nth_back()) fails, no *)
(* later next()/next_back() call yields another item.                      *)
KeysNextBackErrCollapses ==
  (kRes.backErr0 /\ kRes.op \in {"next", "next_back"}) => kRes.ret = "None"

(* C6, Keys half: nth(n) with n < r = len - pos fetches index pos + n and  *)
(* leaves pos = pos + n + 1; nth_back(n) with n < r fetches index          *)
(* len - 1 - n; with n >= r the call returns None, leaves len() = 0 and    *)
(* makes no Driver call.                                                   *)
KeysNthSaturates ==
  LET r == kRes.len0 - kRes.pos0
  IN /\ (kRes.op = "nth" /\ kRes.n < r) =>
          /\ kRes.idx = kRes.pos0 + kRes.n
          /\ kRes.ret = "Ok" => kw.pos = kRes.pos0 + kRes.n + 1
     /\ (kRes.op = "nth_back" /\ kRes.n < r) =>
          kRes.idx = kRes.len0 - 1 - kRes.n
     /\ (kRes.op \in {"nth", "nth_back"} /\ kRes.n >= r) =>
          (kRes.ret = "None" /\ kRes.idx = -1 /\ KeysLen(kw) = 0)

(* C7, Keys half: last() on a walker with pos < len returns the item at    *)
(* index len - 1, and None when pos = len.                                 *)
KeysLastIsLast ==
  kRes.op = "last" =>
    IF kRes.pos0 < kRes.len0
      THEN kRes.ret \in {"Ok", "Err"} /\ kRes.idx = kRes.len0 - 1
      ELSE kRes.ret = "None"

(***************************************************************************)
(* Claims about the fan walkers (SpecFans).                                *)
(***************************************************************************)
(* C3: with no Driver errors, next_back() loads the fan with the highest   *)
(* remaining id (len - 1), no fan id is loaded twice, and a walk by        *)
(* next()/next_back() to exhaustion loads every id of 0..fanCount-1.       *)
FansBackLoadsHighest ==
  (fKind = "Fans" /\ ~fFlag.err) =>
    /\ (fRes.op = "next_back" /\ fRes.ret # "None") =>
         fRes.idx = fRes.len0 - 1
    /\ Cardinality(LogIdx(fLog)) = Len(fLog)
    /\ (~fFlag.other /\ fw.pos = fw.len) => LogIdx(fLog) = 0..(fN - 1)

(* C6, Fans half: as KeysNthSaturates, over fan ids.                       *)
FansNthSaturates ==
  LET r == fRes.len0 - fRes.pos0
  IN /\ (fRes.op = "nth" /\ fRes.n < r) =>
          /\ fRes.idx = fRes.pos0 + fRes.n
          /\ fRes.src # "lookup" => fw.pos = fRes.pos0 + fRes.n + 1
     /\ (fRes.op = "nth_back" /\ fRes.n < r) =>
          fRes.idx = fRes.len0 - 1 - fRes.n
     /\ (fRes.op \in {"nth", "nth_back"} /\ fRes.n >= r) =>
          (fRes.ret = "None" /\ fRes.idx = -1 /\ FansLen(fw) = 0)

(* C6: nth/nth_back saturation, for Keys and for Fans.                     *)
NthSaturates == KeysNthSaturates /\ FansNthSaturates

(* C7, Fans half: last() on a walker with pos < len returns the item at    *)
(* id len - 1, and None when pos = len.                                    *)
FansLastIsLast ==
  fRes.op = "last" =>
    IF fRes.pos0 < fRes.len0
      THEN fRes.ret \in {"Ok", "Err"} /\ fRes.idx = fRes.len0 - 1
      ELSE fRes.ret = "None"

(* C7: last() is correct on the walkers, Keys and Fans.                    *)
LastIsLast == KeysLastIsLast /\ FansLastIsLast

(* C8: once a FanInfos call has yielded an error, from the fan lookup or   *)
(* from into_info, every later call yields None.                           *)
FanInfosStopOnFailure ==
  (fKind = "FanInfos" /\ fRes.err0) => fRes.ret = "None"

\* The part of C8 the code does keep: after a failed fan lookup.
FanInfosStopOnLookupFailure ==
  (\E k \in 1..Len(LogBefore(fLog, IF fRes.idx >= 0 THEN 1 ELSE 0)) :
      ~fLog[k].ok) => fRes.ret = "None"

(***************************************************************************)
(* Claims about the fan speed writes (SpecGate).                           *)
(***************************************************************************)
MinSpeedOps == {"set_min_speed", "Fan::set_min_speed", "lib::Fan::set_min_speed"}
CurrentSpeedOps == {"set_current_speed", "Fan::set_current_speed"}

\* 0 < speed <= max, as numbers
MinSpeedSafe(speed, max) ==
  ~speed.nan /\ ~max.nan /\ 0 < speed.v /\ speed.v <= max.v

\* min <= speed <= max, as numbers
CurrentSpeedSafe(speed, min, max) ==
  ~speed.nan /\ ~min.nan /\ ~max.nan /\ min.v <= speed.v /\ speed.v <= max.v

(* C9: set_min_speed issues a write transaction, and only for F{id}Mn,     *)
(* only if 0 < speed <= max; for speed <= 0 or speed > max it returns an   *)
(* error and no write transaction reaches the Driver.                      *)
MinSpeedGate ==
  gOp.op \in MinSpeedOps =>
    /\ HasWrite(gLog) =>
         /\ MinSpeedSafe(gOp.speed, gOp.max)
         /\ WriteKeys(gLog) = {Key(gOp.id, "Mn")}
    /\ (FLe(gOp.speed, Zero) \/ FGt(gOp.speed, gOp.max)) =>
         (gRet # "Ok" /\ ~HasWrite(gLog))

\* C9 restricted to ordered operands (neither speed nor max is NaN).
MinSpeedGateOrdered ==
  (gOp.op \in MinSpeedOps /\ ~gOp.speed.nan /\ ~gOp.max.nan) => MinSpeedGate

(* C10: set_current_speed issues a write transaction for F{id}Tg if and    *)
(* only if min <= speed <= max (given the Driver accepts it); for          *)
(* speed < min or speed > max it returns an error and no write transaction *)
(* reaches the Driver.                                                     *)
CurrentSpeedGate ==
  gOp.op \in CurrentSpeedOps =>
    /\ HasWrite(gLog) =>
         /\ CurrentSpeedSafe(gOp.speed, gOp.min, gOp.max)
         /\ WriteKeys(gLog) = {Key(gOp.id, "Tg")}
    /\ gRet = "Ok" => HasWrite(gLog)
    /\ (FLt(gOp.speed, gOp.min) \/ FGt(gOp.speed, gOp.max)) =>
         (gRet # "Ok" /\ ~HasWrite(gLog))

\* C10 restricted to ordered operands (none of speed, min, max is NaN).
CurrentSpeedGateOrdered ==
  (gOp.op \in CurrentSpeedOps /\ ~gOp.speed.nan /\ ~gOp.min.nan /\ ~gOp.max.nan)
    => CurrentSpeedGate

\* error.rs:14-15: the error kinds of a failed decode and a failed encode
\* (the spec's ConversionFromFailed / ConversionToFailed).
ConversionKinds == {"TryFrom", "TryInto"}

\* The speed of the last call was refused by the range test of
\* set_min_speed / set_current_speed.
GateRejected ==
  \/ /\ gOp.op = "set_min_speed"
     /\ FLe(gOp.speed, Zero) \/ FGt(gOp.speed, gOp.max)
  \/ /\ gOp.op = "set_current_speed"
     /\ FLt(gOp.speed, gOp.min) \/ FGt(gOp.speed, gOp.max)

(* C11: a speed refused by the range test of set_min_speed or              *)
(* set_current_speed is reported with the error kind UnsafeValue, which is *)
(* not one of the conversion-failure kinds.                                *)
RejectedAsUnsafeValue ==
  GateRejected => (gRet = "UnsafeValue" /\ gRet \notin ConversionKinds)

(***************************************************************************)
(* Claims about the managed bitmask (SpecManaged).                         *)
(***************************************************************************)
\* The mask the Driver's register holds, as the big-endian value of its
\* bytes, and whether it marks fan id as managed (bit id clear).
MaskOf(data) == Unsigned(data).lo
Managed(data, id) == Bit(MaskOf(data), id) = 0

\* The positions of the log at which key was written.
WritesOf(log, key) ==
  { k \in 1..Len(log) : log[k].sel = "WriteKey" /\ log[k].key = key }

SetCurrentSpeedOps == {"set_current_speed", "lib::Fan::set_current_speed"}

(* C12: a successful set_current_speed takes the fan out of managed mode:  *)
(* if the fan was managed, a write of the managed bitmask is issued, any    *)
(* such write comes before the write of the target speed F{id}Tg, and      *)
(* after the call the fan is not managed.                                  *)
SpeedWriteClearsManaged ==
  (mOp.op \in SetCurrentSpeedOps /\ mOp.ret = "Ok") =>
    /\ ~Managed(mDrv.data, mOp.id)
    /\ Managed(mOp.data0, mOp.id) => WritesOf(mOp.log, KeyFS) # {}
    /\ \A i \in WritesOf(mOp.log, KeyFS), j \in WritesOf(mOp.log, Key(mOp.id, "Tg")) :
         i < j

\* C12 for the Arc-based facade alone (lib.rs:541-551).
LibSpeedWriteClearsManaged ==
  mOp.op = "lib::Fan::set_current_speed" => SpeedWriteClearsManaged

(* C13: fan_set_managed(id, m) is a read-modify-write of the bitmask: the  *)
(* mask the Driver holds afterwards differs from the one read in at most   *)
(* bit id, and when the call succeeds bit id is clear for m = true and set *)
(* for m = false, so that a following is_managed(id) returns m.            *)
SetManagedRMW ==
  mOp.op = "fan_set_managed" =>
    /\ \A i \in (0..(U16_BITS - 1)) \ {mOp.id} :
         Bit(MaskOf(mDrv.data), i) = Bit(MaskOf(mOp.data0), i)
    /\ mOp.ret = "Ok" =>
         /\ Bit(MaskOf(mDrv.data), mOp.id) = (IF mOp.managed THEN 0 ELSE 1)
         /\ is_managed(Ctx(mDrv, 0), mOp.id).ret = "Ok"
         /\ is_managed(Ctx(mDrv, 0), mOp.id).v = mOp.managed

\* A successful fan_set_managed that wrote a new mask while another fan's
\* bit was set.
SetManagedRMWWitness ==
  /\ mOp.op = "fan_set_managed" /\ mOp.ret = "Ok"
  /\ WritesOf(mOp.log, KeyFS) # {}
  /\ mDrv.data # mOp.data0
  /\ \E i \in (0..(MaskBits - 1)) \ {mOp.id} : Bit(MaskOf(mOp.data0), i) = 1

SetManagedOps == {"fan_set_managed", "lib::Fan::set_managed"}

(* C14: set_managed goes on to write the bitmask (any transaction after    *)
(* the two of the read) only if the computed mask differs from the mask    *)
(* just read, and a call that succeeds with a differing mask issued        *)
(* exactly one WriteKey; a call repeating a successful set_managed(id, m)   *)
(* issues none.                                                            *)
SetManagedWritesIffChanged ==
  mOp.op \in SetManagedOps =>
    LET changed == Managed(mOp.data0, mOp.id) # mOp.managed
        nW      == Cardinality(WritesOf(mOp.log, KeyFS))
    IN /\ nW <= 1
       /\ nW = 1 => changed
       /\ Len(mOp.log) > RwTx => changed
       /\ (changed /\ mOp.ret = "Ok") => nW = 1
       /\ mRepeat # "no" => nW = 0

\* set_managed(id, true) on an unmanaged fan wrote the mask, and the same
\* call made again returned Ok without a write.
SetManagedTwiceWitness ==
  /\ mOp.op = "fan_set_managed" /\ mOp.managed /\ mOp.ret = "Ok"
  /\ mRepeat = "wrote"
  /\ WritesOf(mOp.log, KeyFS) = {}
  /\ Len(mOp.log) = RwTx

(***************************************************************************)
(* Claims about the codec (SpecCodec).                                     *)
(***************************************************************************)
IntTags == {TYPE_U8, TYPE_I8, TYPE_U16, TYPE_I16, TYPE_U32, TYPE_I32}
IntTargets == {"u8", "i8", "u16", "i16", "u32", "i32", "i64"}

\* The tags each target type accepts, each at its declared width.
AcceptedTags(T) ==
  CASE T = "bool" -> {TYPE_FLAG}
    [] T = "u8"   -> {TYPE_U8}
    [] T = "i8"   -> {TYPE_I8}
    [] T = "u16"  -> {TYPE_U8, TYPE_U16}
    [] T = "i16"  -> {TYPE_U8, TYPE_I8, TYPE_I16}
    [] T \in {"u32", "UMax10", "OneDigit"} -> {TYPE_U8, TYPE_U16, TYPE_U32}
    [] T = "i32"  -> {TYPE_U8, TYPE_I8, TYPE_U16, TYPE_I16, TYPE_I32}
    [] T = "i64"  -> IntTags
    [] T = "f32"  -> {TYPE_FPE2, TYPE_SP78, TYPE_FLT}
    [] T = "FanName" -> {TYPE_FAN}
Accepted(T, param) ==
  /\ param.type \in AcceptedTags(T)
  /\ IF T = "FanName" THEN param.len >= FAN_NAME_OFFSET
                      ELSE param.len = Width(param.type)

(* C15: for every target type and every buffer, from_smc returns None      *)
(* unless the buffer's (tag, length) is in the type's accepted table (a    *)
(* known tag at a length other than its width gives None), and it reads    *)
(* no byte at or beyond the buffer's length.                               *)
DecodeTotal ==
  cOp.op = "from_smc" =>
    /\ cOp.res.ok => Accepted(cOp.T, cOp.param)
    /\ cOp.res.reads <= cOp.param.len
    /\ cOp.T \notin {"UMax10", "OneDigit"} =>
         (cOp.res.ok <=> Accepted(cOp.T, cOp.param))

\* u32 asked of a ui16 buffer of 4 bytes: a tag it knows, at a wrong length.
DecodeTotalWitness ==
  /\ cOp.op = "from_smc" /\ cOp.T = "u32"
  /\ cOp.param.type = TYPE_U16 /\ cOp.param.len = 4
  /\ ~cOp.res.ok

\* The bits of an integer type or tag and whether it is signed.
IntBits(x) ==
  CASE x \in {"u8", "i8", TYPE_U8, TYPE_I8}     -> 8
    [] x \in {"u16", "i16", TYPE_U16, TYPE_I16} -> 16
    [] x \in {"u32", "i32", TYPE_U32, TYPE_I32} -> 32
    [] x = "i64" -> 64
IsSigned(x) == x \in {"i8", "i16", "i32", "i64", TYPE_I8, TYPE_I16, TYPE_I32}
\* Every value of the tag G is a value of the type T.
Fits(G, T) ==
  IF IsSigned(G) THEN IsSigned(T) /\ IntBits(T) >= IntBits(G)
  ELSE IF IsSigned(T) THEN IntBits(T) > IntBits(G)
  ELSE IntBits(T) >= IntBits(G)
\* The big-endian value of a buffer tagged G.
BigEndian(G, data) ==
  IF IsSigned(G) THEN Signed(SubSeq(data, 1, Width(G)))
                 ELSE Unsigned(SubSeq(data, 1, Width(G)))

(* C16: an integer target T decodes a buffer with an integer tag G at its  *)
(* width if and only if every value of G is a value of T, and the result   *)
(* is the big-endian value of the buffer.                                  *)
DecodeWidens ==
  (/\ cOp.op = "from_smc" /\ cOp.T \in IntTargets
   /\ cOp.param.type \in IntTags
   /\ cOp.param.len = Width(cOp.param.type)) =>
    /\ cOp.res.ok <=> Fits(cOp.param.type, cOp.T)
    /\ cOp.res.ok => cOp.res.v = BigEndian(cOp.param.type, cOp.param.data)

\* A ui8 buffer holding 255 decoded as u32, and a si16 buffer holding a
\* negative value refused by u32.
DecodeWidensWitness ==
  /\ cOp.op = "from_smc" /\ cOp.T = "u32"
  /\ \/ /\ cOp.param.type = TYPE_U8 /\ cOp.param.len = 1
        /\ cOp.res.ok /\ cOp.res.v = W(255)
     \/ /\ cOp.param.type = TYPE_I16 /\ cOp.param.len = 2
        /\ cOp.param.data[1] = 255 /\ ~cOp.res.ok

\* The (tag, length) pairs each encoder accepts.
EncodeTags(S) ==
  CASE S = "bool" -> {TYPE_FLAG}
    [] S = "u8"   -> {TYPE_U8, TYPE_I16, TYPE_U16, TYPE_I32, TYPE_U32}
    [] S = "i8"   -> {TYPE_I8, TYPE_I16, TYPE_I32}
    [] S = "u16"  -> {TYPE_U16, TYPE_I32, TYPE_U32}
    [] S = "i16"  -> {TYPE_I16, TYPE_I32}
    [] S = "u32"  -> {TYPE_U32}
    [] S = "i32"  -> {TYPE_I32}

(* C17: write_S succeeds exactly on the (tag, width) pairs of its table,   *)
(* and decoding the buffer it filled with the tag's own type gives back    *)
(* the value written.                                                      *)
IntRoundTrip ==
  cOp.op = "write" =>
    /\ cOp.ok <=> (/\ cOp.val.type \in EncodeTags(cOp.S)
                   /\ cOp.val.len = Width(cOp.val.type))
    /\ cOp.ok => (cOp.res.ok /\ cOp.res.v = cOp.n)

\* A negative i8 written into a si32 buffer, and 256 as u16 into a ui16 one.
IntRoundTripWitness ==
  /\ cOp.op = "write" /\ cOp.ok /\ cOp.res.ok
  /\ \/ cOp.S = "i8" /\ cOp.n = W(-1) /\ cOp.val.type = TYPE_I32
     \/ cOp.S = "u16" /\ cOp.n = W(256) /\ cOp.val.type = TYPE_U16

\* A write_f32 call into a buffer of the tag t at its width.
WriteF32Into(t) ==
  /\ cOp.op = "write_f32"
  /\ cOp.val.type = t
  /\ cOp.val.len = Width(t)

(* C18: write_f32 into a flt buffer of 4 bytes stores the bytes of v most  *)
(* significant first, and f32::from_smc of that buffer has the bit pattern *)
(* of v, on a host of either byte order.                                   *)
FltRoundTrip ==
  WriteF32Into(TYPE_FLT) =>
    /\ cOp.ok /\ cOp.val.data = cOp.n.bits
    /\ cOp.res.ok /\ cOp.res.v = DecBits(cOp.n.bits)

\* v * 4 and v * 256 for the float n, as exact fractions of the grid.
Fpe2Unit == QDen \div FPE2_SCALE
Sp78Unit == QDen \div SP78_SCALE
\* The two bytes of the 16-bit integer k, most significant first.
TwoBytes(k) == <<(k % B16) \div B8, k % B8>>

(* C19: write_f32 into an fpe2 buffer of 2 bytes returns None for every    *)
(* negative value (every value with the sign bit set), and for every       *)
(* non-negative v with v * 4 <= 65535 it stores floor(v * 4) big-endian,   *)
(* so that decoding gives floor(v * 4) / 4.                                *)
Fpe2Quantises ==
  WriteF32Into(TYPE_FPE2) =>
    LET n == cOp.n
        k == n.q \div Fpe2Unit
    IN /\ (n.q < 0 \/ n.bits[1] >= 128) =>
            (~cOp.ok /\ cOp.val = cOp.val0)
       /\ (~n.nan /\ n.bits[1] < 128 /\ n.q <= U16_MAX * Fpe2Unit) =>
            /\ cOp.ok /\ cOp.val.data = TwoBytes(k)
            /\ cOp.res.ok /\ cOp.res.v = DecQ(k * Fpe2Unit)

\* 1126/1024, the float next to 1.1 on the grid, comes back as 1.
Fpe2QuantisesWitness ==
  /\ WriteF32Into(TYPE_FPE2)
  /\ cOp.n.q = 1126 /\ cOp.ok
  /\ cOp.val.data = <<0, 4>>
  /\ cOp.res.ok /\ cOp.res.v = DecQ(QDen)

\* a / b rounded to the nearest integer, halves away from zero.
RoundDiv(a, b) ==
  IF a >= 0 THEN (2 * a + b) \div (2 * b) ELSE -((2 * (-a) + b) \div (2 * b))

(* C20: write_f32 into an sp78 buffer of 2 bytes succeeds for every float, *)
(* and for every v with v * 256 in the range of i16 the stored big-endian  *)
(* i16 is round(v * 256), so that decoding gives round(v * 256) / 256.     *)
Sp78Rounds ==
  WriteF32Into(TYPE_SP78) =>
    LET n == cOp.n
        k == RoundDiv(n.q, Sp78Unit)
    IN /\ cOp.ok
       /\ (~n.nan /\ n.q >= I16_MIN * Sp78Unit /\ n.q <= I16_MAX * Sp78Unit) =>
            /\ cOp.val.data = TwoBytes(k)
            /\ cOp.res.ok /\ cOp.res.v = DecQ(k * Sp78Unit)

(* C21: whenever a util::write_* function returns None (a (tag, length)    *)
(* pair it does not know, or a negative value for fpe2) the destination    *)
(* buffer has the type, the length and the bytes it had before the call.   *)
EncodeFailureLeavesBuffer ==
  (cOp.op \in {"write", "write_f32"} /\ ~cOp.ok) => cOp.val = cOp.val0

\* A u8 refused by a one-byte buffer tagged si8 that holds an earlier byte.
EncodeFailureLeavesBufferWitness ==
  /\ cOp.op = "write" /\ cOp.S = "u8" /\ cOp.n = W(1)
  /\ cOp.val0.type = TYPE_I8 /\ cOp.val0.data = <<255>>
  /\ ~cOp.ok /\ cOp.val = cOp.val0

(***************************************************************************)
(* Claims about the codec of the Arc-based facade (SpecManaged).           *)
(***************************************************************************)
LibMaskOps == {"lib::Fan::is_managed", "lib::Fan::set_managed"}

(* C27: when FS! is declared ui16, the read of the mask as u16 in          *)
(* Fan::is_managed and Fan::set_managed of the Arc-based facade decodes    *)
(* the register rather than aborting: a call the Driver does not refuse    *)
(* returns Ok.                                                             *)
LibDecodesUi16 ==
  (/\ mOp.op \in LibMaskOps
   /\ mDrv.ty = TYPE_U16
   /\ mOp.ret # "Driver") => mOp.ret = "Ok"

(***************************************************************************)
(* Claims about rpm and percent (SpecPercent).                             *)
(***************************************************************************)
\* max(0, current - min) for speeds that are numbers.
FlooredRpm(current, min) ==
  IF current.v - min.v > 0 THEN current.v - min.v ELSE 0

(* C25: rpm(current, min) is max(0, current - min), and percent(current,   *)
(* min, max) is max(0, current - min) / (max - min) * 100: floored at zero *)
(* when current < min, and not clamped above 100.                          *)
PercentFormula ==
  /\ (pOp.op = "rpm" /\ ~pOp.current.nan /\ ~pOp.min.nan) =>
       pOp.rpm = F(FlooredRpm(pOp.current, pOp.min))
  /\ (/\ pOp.op = "percent"
      /\ ~pOp.current.nan /\ ~pOp.min.nan /\ ~pOp.max.nan
      /\ pOp.max.v # pOp.min.v) =>
       /\ pOp.pct.kind = "num"
       /\ pOp.pct.num * (pOp.max.v - pOp.min.v)
            = FlooredRpm(pOp.current, pOp.min) * 100 * pOp.pct.den

\* percent(150, 0, 100) is 150.
PercentFormulaWitness ==
  /\ pOp.op = "percent"
  /\ pOp.current = F(150) /\ pOp.min = F(0) /\ pOp.max = F(100)
  /\ pOp.pct.num = 150 * pOp.pct.den

(***************************************************************************)
(* Claims about FanInfo::refresh (SpecInfo).                               *)
(***************************************************************************)
SnapshotFields(info) ==
  <<info.min_speed, info.max_speed, info.current_speed, info.managed>>

(* C30: FanInfo::refresh is all-or-nothing: when one of its four reads     *)
(* fails it returns the error and the snapshot's min_speed, max_speed,     *)
(* current_speed and managed keep the values they had before the call;     *)
(* when all succeed all four are replaced by the values read.              *)
RefreshAllOrNothing ==
  iOp.op = "refresh" =>
    /\ iOp.ret = "Err" => SnapshotFields(iInfo) = SnapshotFields(iOp.info0)
    /\ iOp.ret = "Ok" =>
         SnapshotFields(iInfo) =
           <<iOp.rd[1].v, iOp.rd[2].v, iOp.rd[3].v,
             Bit(iOp.rd[4].v, iInfo.id) = 0>>

(***************************************************************************)
(* Claims about the fan ids of the walkers (SpecFans).                     *)
(***************************************************************************)
(* C26: every fan id the Fans / FanInfos walkers pass to get_fan, over any *)
(* sequence of next / next_back / nth / nth_back / last calls, is in       *)
(* 0..fanCount - 1 and at most 9, fanCount being the value of FNum, which  *)
(* is at most 10: a FNum above 10 makes fans() fail and no id is passed.   *)
FanIdsInRange ==
  /\ \A k \in 1..Len(fLog) :
       /\ fLog[k].i >= 0 /\ fLog[k].i < fN
       /\ fLog[k].i <= ONE_DIGIT_MAX
  /\ fN > UMAX10_MAX => (fRes.ret = "Err" /\ ~fFlag.alive /\ fLog = <<>>)
  /\ fFlag.alive => fw.len <= fN

\* The walker of the largest machine tried has loaded its last fan.
FanIdsInRangeWitness ==
  /\ fN = MaxFans
  /\ \E k \in 1..Len(fLog) : fLog[k].i = fN - 1

(***************************************************************************)
(* Claims about the shared connection (SpecConn).                          *)
(***************************************************************************)
\* The Driver calls made so far, by any thread.
ConnTxs == UNION { { xT[t].txs[k] : k \in 1..Len(xT[t].txs) } : t \in Threads }

(* C22: call_driver returns Ok exactly for (ioSuccess, 0), KeyNotFound     *)
(* with the request's key exactly for (ioSuccess, 132), NotPrivileged for  *)
(* the not-privileged IO code with any result byte, and Unknown carrying   *)
(* the IO code and the result byte as they are for every other pair.       *)
DriverClassification ==
  \A tx \in ConnTxs :
    /\ tx.out.kind = "Ok" <=> (tx.io = kIOReturnSuccess /\ tx.rb = 0)
    /\ tx.out.kind = "KeyNotFound" <=>
         (tx.io = kIOReturnSuccess /\ tx.rb = SMC_KEY_NOT_FOUND)
    /\ tx.out.kind = "KeyNotFound" => tx.out.key = tx.key
    /\ tx.out.kind = "NotPrivileged" <=> tx.io = kIOReturnNotPrivileged
    /\ tx.out.kind = "Unknown" <=>
         /\ tx.io # kIOReturnNotPrivileged
         /\ tx.io = kIOReturnSuccess => tx.rb \notin {0, SMC_KEY_NOT_FOUND}
    /\ tx.out.kind = "Unknown" => (tx.out.io = tx.io /\ tx.out.rb = tx.rb)

\* A successful IO call with an unlisted result byte, and a failed IO call
\* with the key-not-found byte, have both been classified.
DriverClassificationWitness ==
  /\ \E tx \in ConnTxs : tx.io = kIOReturnSuccess /\ tx.rb = 1
  /\ \E tx \in ConnTxs :
       /\ tx.io \notin {kIOReturnSuccess, kIOReturnNotPrivileged}
       /\ tx.rb = SMC_KEY_NOT_FOUND

SetManagedSels == <<"GetKeyInfo", "ReadKey", "GetKeyInfo", "WriteKey">>

(* C23: a typed read_key / write_key is two Driver calls in order, the     *)
(* GetKeyInfo of the key and then the ReadKey / WriteKey carrying the size *)
(* the first returned; the second is issued only if the first succeeded,   *)
(* a failure is returned to the caller as it is, and no call is retried.   *)
TwoTransactions ==
  \A t \in Threads :
    LET th == xT[t]
        n  == Len(th.txs)
    IN /\ n <= Len(SetManagedSels)
       /\ \A k \in 1..n :
            /\ th.txs[k].sel = SetManagedSels[k]
            /\ th.txs[k].key = "FS! "
            /\ k < n => th.txs[k].out.kind = "Ok"
            /\ k \in {2, 4} => th.txs[k].size = Width(th.txs[k - 1].ty)
       /\ (th.at = "done" /\ th.ret.kind # "Ok") =>
            (n > 0 /\ th.ret = th.txs[n].out)
       /\ (th.at = "done" /\ th.ret.kind = "Ok") =>
            (n \in {2, 4} /\ th.txs[n].out.kind = "Ok")
       /\ (th.at \in {"want", "calling"}) =>
            /\ th.phase = n + 1
            /\ th.req.sel = SetManagedSels[th.phase]
            /\ th.phase \in {2, 4} => th.req.size = Width(th.txs[n].ty)

\* A set_managed whose read_key and write_key both went through, the read
\* with a one-byte register and the write with a two-byte one.
TwoTransactionsWitness ==
  \E t \in Threads :
    /\ xT[t].at = "done" /\ xT[t].ret.kind = "Ok"
    /\ Len(xT[t].txs) = 4
    /\ xT[t].txs[2].size = 1 /\ xT[t].txs[4].size = 2

InFlight == { t \in Threads : xT[t].at = "calling" }

(* C24: at most one Driver call is in flight on the connection at any      *)
(* time: the thread in flight holds the connection mutex, and the mutex is *)
(* free when no call is in flight.  The two calls of one read_key or       *)
(* write_key are not atomic: another thread's call may run between them.   *)
OneCallInFlight ==
  /\ Cardinality(InFlight) <= 1
  /\ \A t \in InFlight : xLock = t
  /\ InFlight = {} => xLock = 0

\* Thread 1 has made the GetKeyInfo of its read_key and not yet the
\* ReadKey, thread 2 has made a call in between and is making another.
OneCallInFlightWitness ==
  /\ xT[1].at = "want" /\ xT[1].phase = 2 /\ xT[1].cut
  /\ xT[2].at = "calling" /\ xLock = 2

(* C28: when both threads' set_managed calls, on two different fans, have  *)
(* returned Ok, the bitmask register holds for each fan the value its      *)
(* caller asked for.                                                       *)
NoLostUpdate ==
  (\A t \in Threads : xT[t].at = "done" /\ xT[t].ret.kind = "Ok") =>
    \A t \in Threads :
      (Bit(Unsigned(xReg).lo, FanOf(t)) = 0) <=> xT[t].what

(***************************************************************************)
(* Claims about the shared connection slot (SpecShared).                   *)
(***************************************************************************)
\* The handles to connection c that callers hold.
HandlesOn(c) == { t \in Sharers : sT[t].at = "has" /\ sT[t].handle = c }

(* C29: SMC::shared() is a race-free singleton: no connection is opened    *)
(* after one has been opened successfully, every successful call returns   *)
(* a handle to the connection in the slot, a failed open leaves the slot   *)
(* empty (and the next call opens again), and a connection is not closed   *)
(* while the slot or a handle refers to it.                                *)
SharedSingleton ==
  /\ \A i \in 1..Len(sNew) : sNew[i] = "Ok" => i = Len(sNew)
  /\ sSlot = Opened(sNew)
  /\ \A t \in Sharers :
       /\ sT[t].at = "has" => (sT[t].handle = sSlot /\ sSlot # 0)
       /\ sT[t].at = "none" => (sSlot = 0 /\ sLock = t)
       /\ sT[t].at = "some" => (sSlot # 0 /\ sLock = t)
  /\ \A c \in 1..Len(sRefs) :
       /\ sRefs[c] = Cardinality(HandlesOn(c)) + (IF sSlot = c THEN 1 ELSE 0)
       /\ c \in sClosed => (sSlot # c /\ HandlesOn(c) = {})
  /\ sClosed = {}

\* The first open failed, the second succeeded, and two threads hold a
\* handle to the one connection, one of them from its second call.
SharedSingletonWitness ==
  /\ sNew = <<"FailedToOpen", "Ok">>
  /\ sSlot = 1
  /\ HandlesOn(1) = {1, 2}
  /\ sT[1].calls = 2 /\ sT[2].calls = 1

====
